---- MODULE Spec2Model ----
(***************************************************************************)
(* Voice-driven triage interview engine (backend/app/services/             *)
(* simple_triage.py) with its persistence collaborator                     *)
(* (patient_service.py, models/patient.py) and the session endpoints       *)
(* (api/api_v1/endpoints/simple_triage.py), and the summary cache and      *)
(* service (backend/app/services/ai_summary_service.py).                   *)
(*                                                                         *)
(* Text is a sequence of one-character strings, so that the validators     *)
(* are computed character by character as the Python code computes them.   *)
(* A float is a pair <<hi, lo>> standing for the binary64 value            *)
(* (hi * 2^28 + lo) * 2^-56; additions round to nearest-even at 53 bits.   *)
(***************************************************************************)
EXTENDS Integers, Sequences, FiniteSets, Bags, TLC

\* Optional[T]: None is the empty tuple, a value x is <<x>>
None == << >>
Some(x) == << x >>

-----------------------------------------------------------------------------
(* Characters and the Python string operations the validators use.         *)

LowerCase == << "a","b","c","d","e","f","g","h","i","j","k","l","m",
                "n","o","p","q","r","s","t","u","v","w","x","y","z" >>
UpperCase == << "A","B","C","D","E","F","G","H","I","J","K","L","M",
                "N","O","P","Q","R","S","T","U","V","W","X","Y","Z" >>
Digits == << "0","1","2","3","4","5","6","7","8","9" >>

Range(s) == { s[i] : i \in DOMAIN s }
IndexOf(s, c) == CHOOSE i \in DOMAIN s : s[i] = c

IsLower(c) == c \in Range(LowerCase)
IsUpper(c) == c \in Range(UpperCase)
IsLetter(c) == IsLower(c) \/ IsUpper(c)
IsDigit(c) == c \in Range(Digits)
IsSpace(c) == c = " "

\* str.lower / str.upper on one character
LowerChar(c) == IF IsUpper(c) THEN LowerCase[IndexOf(UpperCase, c)] ELSE c
UpperChar(c) == IF IsLower(c) THEN UpperCase[IndexOf(LowerCase, c)] ELSE c

\* str.lower()
Lower(s) == [ i \in DOMAIN s |-> LowerChar(s[i]) ]

\* str.strip(): leading and trailing whitespace removed
RECURSIVE LStrip(_)
LStrip(s) == IF s # << >> /\ IsSpace(Head(s)) THEN LStrip(Tail(s)) ELSE s
RECURSIVE RStrip(_)
RStrip(s) ==
    IF s # << >> /\ IsSpace(s[Len(s)]) THEN RStrip(SubSeq(s, 1, Len(s) - 1)) ELSE s
Strip(s) == RStrip(LStrip(s))

\* re.sub(r'[.,!?;:]', '', s)
Punctuation == { ".", ",", "!", "?", ";", ":" }
IsNotPunctuation(c) == c \notin Punctuation
StripPunctuation(s) == SelectSeq(s, IsNotPunctuation)

\* word in s  (substring test)
Contains(s, word) ==
    \E i \in 0..(Len(s) - Len(word)) : SubSeq(s, i + 1, i + Len(word)) = word

\* str.split(): the maximal runs of non-whitespace characters
RECURSIVE Split(_)
Split(s) ==
    LET t == LStrip(s)
        RECURSIVE WordLen(_)
        WordLen(u) == IF u = << >> \/ IsSpace(Head(u)) THEN 0 ELSE 1 + WordLen(Tail(u))
    IN  IF t = << >> THEN << >>
        ELSE << SubSeq(t, 1, WordLen(t)) >> \o Split(SubSeq(t, WordLen(t) + 1, Len(t)))

\* str.capitalize(): first character upper-cased, the rest lower-cased
Capitalize(w) ==
    [ i \in DOMAIN w |-> IF i = 1 THEN UpperChar(w[i]) ELSE LowerChar(w[i]) ]

\* ' '.join(words)
RECURSIVE Join(_)
Join(words) ==
    IF words = << >> THEN << >>
    ELSE IF Len(words) = 1 THEN words[1]
    ELSE words[1] \o << " " >> \o Join(Tail(words))

\* re.findall(r'\d+', s)[0]: the first maximal digit run, << >> when there is none
RECURSIVE FirstDigitRun(_)
FirstDigitRun(s) ==
    LET RECURSIVE RunLen(_)
        RunLen(u) == IF u = << >> \/ ~IsDigit(Head(u)) THEN 0 ELSE 1 + RunLen(Tail(u))
    IN  IF s = << >> THEN << >>
        ELSE IF IsDigit(Head(s)) THEN SubSeq(s, 1, RunLen(s))
        ELSE FirstDigitRun(Tail(s))

\* int(digits)
RECURSIVE ParseInt(_)
ParseInt(ds) ==
    IF ds = << >> THEN 0
    ELSE 10 * ParseInt(SubSeq(ds, 1, Len(ds) - 1)) + (IndexOf(Digits, ds[Len(ds)]) - 1)

\* str(n) for n >= 0
RECURSIVE IntToStr(_)
IntToStr(n) ==
    IF n < 10 THEN << Digits[n + 1] >>
    ELSE IntToStr(n \div 10) \o << Digits[(n % 10) + 1] >>

\* re.match(r'^[a-zA-Z\s]+$', s)
MatchesLettersAndSpaces(s) ==
    s # << >> /\ \A i \in DOMAIN s : IsLetter(s[i]) \/ IsSpace(s[i])

-----------------------------------------------------------------------------
(* Validators: each returns <<is_valid, cleaned_value, error_message>>.    *)

\* variant: no minimum length
validate_name_any_length(response) ==
    LET cleaned == StripPunctuation(Strip(response))
    IN  IF ~MatchesLettersAndSpaces(cleaned)
        THEN << FALSE, cleaned, "Please provide a name using only letters." >>
        ELSE << TRUE, Join([ i \in DOMAIN Split(cleaned) |-> Capitalize(Split(cleaned)[i]) ]), "" >>

validate_name(response) ==
    LET cleaned == StripPunctuation(Strip(response))
    IN  IF Len(cleaned) < 2
        THEN << FALSE, cleaned, "Please provide a name with at least 2 characters." >>
        ELSE IF ~MatchesLettersAndSpaces(cleaned)
        THEN << FALSE, cleaned, "Please provide a name using only letters." >>
        ELSE << TRUE, Join([ i \in DOMAIN Split(cleaned) |-> Capitalize(Split(cleaned)[i]) ]), "" >>

\* variant: the last number of the text is taken
validate_age_last_number(response) ==
    LET RECURSIVE Reverse(_)
        Reverse(u) == IF u = << >> THEN << >> ELSE Append(Reverse(Tail(u)), Head(u))
        numbers == Reverse(FirstDigitRun(Reverse(response)))
        age == ParseInt(numbers)
    IN  IF numbers = << >>
        THEN << FALSE, response, "Please provide your age as a number." >>
        ELSE IF ~(0 <= age /\ age <= 150)
        THEN << FALSE, response, "Please provide an age between 0 and 150." >>
        ELSE << TRUE, IntToStr(age), "" >>

validate_age(response) ==
    LET numbers == FirstDigitRun(response)
        age == ParseInt(numbers)
    IN  IF numbers = << >>
        THEN << FALSE, response, "Please provide your age as a number." >>
        ELSE IF ~(0 <= age /\ age <= 150)
        THEN << FALSE, response, "Please provide an age between 0 and 150." >>
        ELSE << TRUE, IntToStr(age), "" >>

\* variant: "male" is looked for first
validate_gender_male_first(response) ==
    LET lower == Strip(Lower(response))
    IN  IF Contains(lower, << "m","a","l","e" >>)
        THEN << TRUE, << "M","a","l","e" >>, "" >>
        ELSE IF Contains(lower, << "f","e","m","a","l","e" >>)
        THEN << TRUE, << "F","e","m","a","l","e" >>, "" >>
        ELSE IF \E word \in { << "o","t","h","e","r" >>,
                              << "n","o","n","-","b","i","n","a","r","y" >>,
                              << "n","o","n","b","i","n","a","r","y" >> } :
                    Contains(lower, word)
        THEN << TRUE, << "O","t","h","e","r" >>, "" >>
        ELSE << FALSE, response, "Please say 'male', 'female', or 'other'." >>

validate_gender(response) ==
    LET lower == Strip(Lower(response))
    IN  IF Contains(lower, << "f","e","m","a","l","e" >>)
        THEN << TRUE, << "F","e","m","a","l","e" >>, "" >>
        ELSE IF Contains(lower, << "m","a","l","e" >>)
                /\ ~Contains(lower, << "f","e","m","a","l","e" >>)
        THEN << TRUE, << "M","a","l","e" >>, "" >>
        ELSE IF \E word \in { << "o","t","h","e","r" >>,
                              << "n","o","n","-","b","i","n","a","r","y" >>,
                              << "n","o","n","b","i","n","a","r","y" >> } :
                    Contains(lower, word)
        THEN << TRUE, << "O","t","h","e","r" >>, "" >>
        ELSE << FALSE, response, "Please say 'male', 'female', or 'other'." >>

\* variant: the length is measured before trimming
validate_symptoms_untrimmed(response) ==
    LET cleaned == Strip(response)
    IN  IF Len(response) < 10
        THEN << FALSE, cleaned, "Please describe your symptoms in more detail." >>
        ELSE << TRUE, cleaned, "" >>

validate_symptoms(response) ==
    LET cleaned == Strip(response)
    IN  IF Len(cleaned) < 10
        THEN << FALSE, cleaned, "Please describe your symptoms in more detail." >>
        ELSE << TRUE, cleaned, "" >>

positive_words == { << "y","e","s" >>, << "y","e","a","h" >>, << "y","e","p" >>,
                    << "y","u","p" >>, << "s","u","r","e" >>,
                    << "d","e","f","i","n","i","t","e","l","y" >> }
negative_words == { << "n","o" >>, << "n","o","p","e" >>, << "n","a","h" >>,
                    << "n","o","t" >> }

\* variant: the negative words are looked for first
validate_boolean_negative_first(response) ==
    LET cleaned == StripPunctuation(Strip(Lower(response)))
    IN  IF \E word \in negative_words : Contains(cleaned, word)
        THEN << TRUE, << "N","o" >>, "" >>
        ELSE IF \E word \in positive_words : Contains(cleaned, word)
        THEN << TRUE, << "Y","e","s" >>, "" >>
        ELSE << FALSE, response, "Please answer with 'yes' or 'no'." >>

validate_boolean(response) ==
    LET cleaned == StripPunctuation(Strip(Lower(response)))
    IN  IF \E word \in positive_words : Contains(cleaned, word)
        THEN << TRUE, << "Y","e","s" >>, "" >>
        ELSE IF \E word \in negative_words : Contains(cleaned, word)
        THEN << TRUE, << "N","o" >>, "" >>
        ELSE << FALSE, response, "Please answer with 'yes' or 'no'." >>

-----------------------------------------------------------------------------
(* binary64 arithmetic of the scorer.  <<hi, lo>> is (hi * 2^28 + lo) units *)
(* of 2^-56; every operand of the scorer is a multiple of that unit.        *)

Limb == 2^28

\* the float literals of the scorer and of the level thresholds
F_0_1 == << 26843545, 161061274 >>
F_0_2 == << 53687091, 53687092 >>
F_0_3 == << 80530636, 214748364 >>
F_0_4 == << 107374182, 107374184 >>
F_0_6 == << 161061273, 161061272 >>
F_0_8 == << 214748364, 214748368 >>
F_1_0 == << Limb, 0 >>

\* a + b, rounded to nearest, ties to even, at 53 significant bits
FloatAdd(a, b) ==
    LET lo0 == a[2] + b[2]
        hi0 == a[1] + b[1] + (lo0 \div Limb)
        lo1 == lo0 % Limb
        ulp == IF hi0 >= Limb THEN 16
               ELSE IF hi0 >= Limb \div 2 THEN 8
               ELSE IF hi0 >= Limb \div 4 THEN 4
               ELSE IF hi0 >= Limb \div 8 THEN 2
               ELSE 1
        r == lo1 % ulp
        down == lo1 - r
        roundUp == (2 * r > ulp) \/ (2 * r = ulp /\ (down \div ulp) % 2 = 1)
        lo2 == IF roundUp THEN down + ulp ELSE down
    IN  << hi0 + (lo2 \div Limb), lo2 % Limb >>

\* a >= b
FloatGE(a, b) == a[1] > b[1] \/ (a[1] = b[1] /\ a[2] >= b[2])

\* min(a, b): Python returns the first argument unless the second is smaller
\* variant: no clamp
FloatFirst(a, b) == a

FloatMin(a, b) == IF FloatGE(a, b) /\ a # b THEN b ELSE a

-----------------------------------------------------------------------------
(* The question catalog.                                                   *)

QUESTIONS == <<
    [ id |-> "name",
      text |-> "Hi, I'm your AI emergency room triage assistant. I'm here to help you today and assess your condition. Let's start - what is your name?",
      type |-> "text", validator |-> "validate_name" ],
    [ id |-> "age", text |-> "What is your age?",
      type |-> "number", validator |-> "validate_age" ],
    [ id |-> "gender", text |-> "What is your gender? Please say male, female, or other.",
      type |-> "text", validator |-> "validate_gender" ],
    [ id |-> "symptoms",
      text |-> "Please describe your main symptoms and what brought you here today.",
      type |-> "text", validator |-> "validate_symptoms" ],
    [ id |-> "bleeding",
      text |-> "Are you currently bleeding from any wounds? Please answer yes or no.",
      type |-> "boolean", validator |-> "validate_boolean" ],
    [ id |-> "breathing",
      text |-> "Are you having trouble breathing? Please answer yes or no.",
      type |-> "boolean", validator |-> "validate_boolean" ],
    [ id |-> "chest_pain",
      text |-> "Are you experiencing chest pain? Please answer yes or no.",
      type |-> "boolean", validator |-> "validate_boolean" ],
    [ id |-> "mobility",
      text |-> "Are you able to walk without assistance? Please answer yes or no.",
      type |-> "boolean", validator |-> "validate_boolean" ] >>

\* len(self.QUESTIONS)
N == Len(QUESTIONS)

\* getattr(self, current_question["validator"])(transcript)
Validate(validator, transcript) ==
    CASE validator = "validate_name" -> validate_name(transcript)
      [] validator = "validate_age" -> validate_age(transcript)
      [] validator = "validate_gender" -> validate_gender(transcript)
      [] validator = "validate_symptoms" -> validate_symptoms(transcript)
      [] validator = "validate_boolean" -> validate_boolean(transcript)

-----------------------------------------------------------------------------
(* Sessions.                                                               *)

\* dict.get(key, default)
Get(dict, key, default) == IF key \in DOMAIN dict THEN dict[key] ELSE default

\* dict[key] = value
Put(dict, key, value) ==
    [ k \in DOMAIN dict \cup { key } |-> IF k = key THEN value ELSE dict[k] ]

EmptyDict == << >>

\* variant: a session that starts at the second question
TriageSessionAtSecondQuestion(session_id, now) ==
    [ session_id |-> session_id,
      current_question_index |-> 1,
      responses |-> << >>,
      created_at |-> now,
      last_activity |-> now,
      is_complete |-> FALSE,
      name |-> None,
      age |-> None,
      gender |-> None,
      chief_complaint |-> None,
      emergency_responses |-> << >> ]

\* TriageSession(session_id) constructed at time now
TriageSession(session_id, now) ==
    [ session_id |-> session_id,
      current_question_index |-> 0,
      responses |-> EmptyDict,
      created_at |-> now,
      last_activity |-> now,
      is_complete |-> FALSE,
      name |-> None,
      age |-> None,
      gender |-> None,
      chief_complaint |-> None,
      emergency_responses |-> EmptyDict ]

\* variant: the age answer sets no derived field
_update_patient_data_without_age(session, question_id, value) ==
    IF question_id = "name" THEN [ session EXCEPT !.name = Some(value) ]
    ELSE IF question_id = "gender" THEN [ session EXCEPT !.gender = Some(value) ]
    ELSE IF question_id = "symptoms" THEN [ session EXCEPT !.chief_complaint = Some(value) ]
    ELSE IF question_id \in { "bleeding", "breathing", "chest_pain", "mobility" }
    THEN [ session EXCEPT !.emergency_responses =
               Put(@, question_id, Lower(value) = << "y","e","s" >>) ]
    ELSE session

_update_patient_data(session, question_id, value) ==
    IF question_id = "name" THEN [ session EXCEPT !.name = Some(value) ]
    ELSE IF question_id = "age" THEN [ session EXCEPT !.age = Some(ParseInt(value)) ]
    ELSE IF question_id = "gender" THEN [ session EXCEPT !.gender = Some(value) ]
    ELSE IF question_id = "symptoms" THEN [ session EXCEPT !.chief_complaint = Some(value) ]
    ELSE IF question_id \in { "bleeding", "breathing", "chest_pain", "mobility" }
    THEN [ session EXCEPT !.emergency_responses =
               Put(@, question_id, Lower(value) = << "y","e","s" >>) ]
    ELSE session

\* Python truthiness of an Optional[int] and of an Optional[str] field
TruthyInt(v) == v # None /\ v[1] # 0
TruthyStr(v) == v # None /\ v[1] # << >>

\* variant: chest pain weighs 0.4
_calculate_urgency_chest_pain_0_4(session) ==
    LET s0 == F_0_3
        s1 == IF Get(session.emergency_responses, "bleeding", FALSE)
              THEN FloatAdd(s0, F_0_4) ELSE s0
        s2 == IF Get(session.emergency_responses, "breathing", FALSE)
              THEN FloatAdd(s1, F_0_4) ELSE s1
        s3 == IF Get(session.emergency_responses, "chest_pain", FALSE)
              THEN FloatAdd(s2, F_0_4) ELSE s2
        s4 == IF ~Get(session.emergency_responses, "mobility", TRUE)
              THEN FloatAdd(s3, F_0_3) ELSE s3
        s5 == IF TruthyInt(session.age)
              THEN IF session.age[1] > 65 THEN FloatAdd(s4, F_0_1)
                   ELSE IF session.age[1] < 5 THEN FloatAdd(s4, F_0_2)
                   ELSE s4
              ELSE s4
    IN  FloatMin(s5, F_1_0)

\* variant: mobility Yes counts as urgent
_calculate_urgency_mobility_not_inverted(session) ==
    LET s0 == F_0_3
        s1 == IF Get(session.emergency_responses, "bleeding", FALSE)
              THEN FloatAdd(s0, F_0_4) ELSE s0
        s2 == IF Get(session.emergency_responses, "breathing", FALSE)
              THEN FloatAdd(s1, F_0_4) ELSE s1
        s3 == IF Get(session.emergency_responses, "chest_pain", FALSE)
              THEN FloatAdd(s2, F_0_3) ELSE s2
        s4 == IF Get(session.emergency_responses, "mobility", FALSE)
              THEN FloatAdd(s3, F_0_3) ELSE s3
        s5 == IF TruthyInt(session.age)
              THEN IF session.age[1] > 65 THEN FloatAdd(s4, F_0_1)
                   ELSE IF session.age[1] < 5 THEN FloatAdd(s4, F_0_2)
                   ELSE s4
              ELSE s4
    IN  FloatMin(s5, F_1_0)

_calculate_urgency(session) ==
    LET s0 == F_0_3
        s1 == IF Get(session.emergency_responses, "bleeding", FALSE)
              THEN FloatAdd(s0, F_0_4) ELSE s0
        s2 == IF Get(session.emergency_responses, "breathing", FALSE)
              THEN FloatAdd(s1, F_0_4) ELSE s1
        s3 == IF Get(session.emergency_responses, "chest_pain", FALSE)
              THEN FloatAdd(s2, F_0_3) ELSE s2
        s4 == IF ~Get(session.emergency_responses, "mobility", TRUE)
              THEN FloatAdd(s3, F_0_3) ELSE s3
        s5 == IF TruthyInt(session.age)
              THEN IF session.age[1] > 65 THEN FloatAdd(s4, F_0_1)
                   ELSE IF session.age[1] < 5 THEN FloatAdd(s4, F_0_2)
                   ELSE s4
              ELSE s4
    IN  FloatMin(s5, F_1_0)

\* variant: the lower bounds are open
TriageLevelOfOpenBounds(urgency_score) ==
    IF ~FloatGE(F_0_8, urgency_score) THEN 1
    ELSE IF ~FloatGE(F_0_6, urgency_score) THEN 2
    ELSE IF ~FloatGE(F_0_4, urgency_score) THEN 3
    ELSE IF ~FloatGE(F_0_2, urgency_score) THEN 4
    ELSE 5

\* the urgency -> TriageLevel conversion of _create_patient_record
TriageLevelOf(urgency_score) ==
    IF FloatGE(urgency_score, F_0_8) THEN 1
    ELSE IF FloatGE(urgency_score, F_0_6) THEN 2
    ELSE IF FloatGE(urgency_score, F_0_4) THEN 3
    ELSE IF FloatGE(urgency_score, F_0_2) THEN 4
    ELSE 5

\* PatientCreate(...) as built by _create_patient_record
PatientCreateOf(session, urgency_score) ==
    [ name |-> IF TruthyStr(session.name) THEN session.name[1]
                 ELSE << "U","n","k","n","o","w","n" >>,
      age |-> IF TruthyInt(session.age) THEN session.age[1] ELSE 0,
      gender |-> IF TruthyStr(session.gender) THEN session.gender[1]
                 ELSE << "O","t","h","e","r" >>,
      chiefComplaint |-> IF TruthyStr(session.chief_complaint) THEN session.chief_complaint[1]
                         ELSE << "N","o"," ","s","y","m","p","t","o","m","s"," ",
                                 "p","r","o","v","i","d","e","d" >>,
      vitals |-> [ heartRate |-> 80, respiratoryRate |-> 16, painLevel |-> 5 ],
      triageLevel |-> TriageLevelOf(urgency_score) ]

\* the pydantic field constraints of PatientCreate and Vitals
PatientCreateValid(p) ==
    /\ 0 <= p.age /\ p.age <= 120
    /\ p.gender \in { << "M","a","l","e" >>, << "F","e","m","a","l","e" >>,
                      << "O","t","h","e","r" >> }
    /\ 1 <= p.vitals.painLevel /\ p.vitals.painLevel <= 10

-----------------------------------------------------------------------------
(* Bounds and inputs of the model.                                         *)

\* session ids the callers use
SessionIds == { "s1", "s2" }

\* transcripts handed to process_voice_response: "45", "130", "non-binary",
\* "yes".  Each validator accepts at least one and rejects at least one:
\* "yes" is also a name, "non-binary" is a gender, a ten-character symptom
\* text and (containing "no") a negative answer, "130" is an age the validator
\* accepts.
Transcripts == { << "4","5" >>,
                 << "1","3","0" >>,
                 << "n","o","n","-","b","i","n","a","r","y" >>,
                 << "y","e","s" >> }

\* the transcripts of the two-session specification: "45", "non-binary", "no"
PairTranscripts == { << "4","5" >>,
                     << "n","o","n","-","b","i","n","a","r","y" >>,
                     << "n","o" >> }

\* the transcripts of the validator specification: "45", "non-binary",
\* "John! Smith", "J", "123", "200", "yeah sure", "not sure", "nope", "maybe"
ValidatorTranscripts ==
    { << "4","5" >>,
      << "n","o","n","-","b","i","n","a","r","y" >>,
      << "J","o","h","n","!"," ","S","m","i","t","h" >>,
      << "J" >>,
      << "1","2","3" >>,
      << "2","0","0" >>,
      << "y","e","a","h"," ","s","u","r","e" >>,
      << "n","o","t"," ","s","u","r","e" >>,
      << "n","o","p","e" >>,
      << "m","a","y","b","e" >> }

\* the transcripts of the free-form questions: "I'm 30 years old", "abc",
\* "200", "30 or 200", "200 or 30", "007", "150", "151", "female", "Male",
\* "other", "nonbinary", "FEMALE or male", "male other", "  chest pain ",
\* " headache ", ".  .", "J ."
AnswerTranscripts ==
    { << "I","'","m"," ","3","0"," ","y","e","a","r","s"," ","o","l","d" >>,
      << "a","b","c" >>,
      << "2","0","0" >>,
      << "3","0"," ","o","r"," ","2","0","0" >>,
      << "2","0","0"," ","o","r"," ","3","0" >>,
      << "0","0","7" >>,
      << "1","5","0" >>,
      << "1","5","1" >>,
      << "f","e","m","a","l","e" >>,
      << "M","a","l","e" >>,
      << "o","t","h","e","r" >>,
      << "n","o","n","b","i","n","a","r","y" >>,
      << "F","E","M","A","L","E"," ","o","r"," ","m","a","l","e" >>,
      << "m","a","l","e"," ","o","t","h","e","r" >>,
      << " "," ","c","h","e","s","t"," ","p","a","i","n"," " >>,
      << " ","h","e","a","d","a","c","h","e"," " >>,
      << "."," "," ","." >>,
      << "J"," ","." >> }

\* The validators' results on the transcripts, evaluated once.
ValidationTable ==
    [ v \in { QUESTIONS[i].validator : i \in DOMAIN QUESTIONS } |->
        [ t \in Transcripts \cup PairTranscripts \cup ValidatorTranscripts
                 \cup AnswerTranscripts |->
            Validate(v, t) ] ]

\* coroutines suspended in asyncio.sleep at the same time
MaxCalls == 1
\* rows the patients table takes before every insert fails
MaxPatients == 2
\* last reading of the wall clock
MaxClock == 1

\* addresses of TriageSession objects: every session id is issued once
Refs == 1..Cardinality(SessionIds)

-----------------------------------------------------------------------------
(* State.                                                                  *)

VARIABLES
    active_sessions,  \* SimpleTriageOrchestrator.active_sessions: id -> address
    heap,             \* address -> TriageSession object, for the live objects
    sleeping,         \* bag of the coroutines suspended in the retry delay (their locals)
    patients,         \* rows of the "patients" table, in insertion order
    clock,            \* datetime.now()
    last,             \* the latest operation step: its arguments and what it returned
    issued,           \* the session ids uuid.uuid4() has produced
    client,           \* ai_summary_service.client: is an OpenAI client configured?
    cache,            \* ai_summary_service.cache.cache: key -> summary and timestamp
    evicted           \* history: the keys whose entry was removed as expired

vars == << active_sessions, heap, sleeping, patients, clock, last, issued,
           client, cache, evicted >>

\* the state of the module-level ai_summary_service
summary_vars == << client, cache, evicted >>

Min(S) == CHOOSE x \in S : \A y \in S : x <= y

\* variant: the key stays
DelNothing(dict, key) == dict

\* dict without key
Del(dict, key) == [ k \in DOMAIN dict \ { key } |-> dict[k] ]

\* objects no session id and no suspended coroutine refers to are freed
Live(act, slp) == { act[k] : k \in DOMAIN act } \cup { c.session : c \in BagToSet(slp) }
Collect(h, act, slp) == [ r \in DOMAIN h \cap Live(act, slp) |-> h[r] ]

\* last: a step that returned a value, raised, or suspended the coroutine.
\* tries is a history of the record-creation attempts of the call so far.
Returned(op, args, result, tries) ==
    [ op |-> op, args |-> args, status |-> "returned", result |-> result, tries |-> tries ]
Raised(op, args, exception) ==
    [ op |-> op, args |-> args, status |-> "raised", result |-> exception, tries |-> << >> ]
Suspended(op, args, tries) ==
    [ op |-> op, args |-> args, status |-> "suspended", result |-> << >>, tries |-> tries ]

-----------------------------------------------------------------------------
(* AISummaryCache and AISummaryService (backend/app/services/              *)
(* ai_summary_service.py).  A payload is a Python dict: the sequence of    *)
(* its <<field, value>> pairs in insertion order, the field name as text.  *)
(* time.time() is read from clock, in whole seconds.                       *)

\* self.cache_duration = 30 * 60
cache_duration == 30 * 60

\* ord() on the characters field names are made of
Ord(c) == IF c = "_" THEN 95 ELSE 96 + IndexOf(LowerCase, c)

\* a < b on str
RECURSIVE StrLess(_, _)
StrLess(a, b) ==
    IF b = << >> THEN FALSE
    ELSE IF a = << >> THEN TRUE
    ELSE IF Head(a) = Head(b) THEN StrLess(Tail(a), Tail(b))
    ELSE Ord(Head(a)) < Ord(Head(b))

FieldLess(p, q) == StrLess(p[1], q[1])

\* variant: the key is taken from the payload in insertion order
_generate_key_insertion_order(data) == data

\* json.dumps(data, sort_keys=True) lists the pairs by field name; the md5
\* hexdigest of that text stands for the text itself, different texts taken
\* to have different digests.
_generate_key(data) == SortSeq(data, FieldLess)

\* {**data, 'type': kind}
WithType(data, kind) ==
    LET type == << "t","y","p","e" >>
    IN  IF \E i \in DOMAIN data : data[i][1] = type
        THEN [ i \in DOMAIN data |-> IF data[i][1] = type THEN << type, kind >> ELSE data[i] ]
        ELSE Append(data, << type, kind >>)

\* AISummaryCache.__init__
AISummaryCache__init__ ==
    /\ cache = EmptyDict
    /\ evicted = {}

\* AISummaryService.__init__ with _initialize_openai: a client exists when
\* settings.OPENAI_API_KEY is set and openai.OpenAI() does not raise
AISummaryService__init__ ==
    /\ client \in BOOLEAN
    /\ AISummaryCache__init__

Init ==
    /\ active_sessions = EmptyDict
    /\ heap = << >>
    /\ sleeping = EmptyBag
    /\ patients = << >>
    /\ clock = 0
    /\ last = Returned("__init__", << >>, << >>, << >>)
    /\ issued = {}
    /\ AISummaryService__init__

-----------------------------------------------------------------------------
(* start_session                                                           *)

welcome_message ==
    "Hi, I'm your AI emergency room triage assistant. I'm here to help you today and assess your condition. Let's start - what is your name?"

\* variant: every session is the same object
start_session_shared_object(session_id) ==
    LET r == Min(Refs)
        act == Put(active_sessions, session_id, r)
    IN  /\ active_sessions' = act
        /\ heap' = Collect(Put(heap, r, TriageSession(session_id, clock)), act, sleeping)
        /\ last' = Returned("start_session", [ session_id |-> session_id ],
                       [ type |-> "question",
                         question |-> welcome_message,
                         question_id |-> QUESTIONS[1].id,
                         step |-> 1,
                         total_steps |-> N,
                         session_id |-> session_id ], << >>)
        /\ UNCHANGED << sleeping, patients, clock >>

start_session(session_id) ==
    LET r == Min(Refs \ DOMAIN heap)
        act == Put(active_sessions, session_id, r)
    IN  /\ active_sessions' = act
        /\ heap' = Collect(Put(heap, r, TriageSession(session_id, clock)), act, sleeping)
        /\ last' = Returned("start_session", [ session_id |-> session_id ],
                       [ type |-> "question",
                         question |-> welcome_message,
                         question_id |-> QUESTIONS[1].id,
                         step |-> 1,
                         total_steps |-> N,
                         session_id |-> session_id ], << >>)
        /\ UNCHANGED << sleeping, patients, clock >>

\* POST /start: start_session under a fresh uuid4
start_triage(session_id) ==
    /\ session_id \notin issued
    /\ issued' = issued \cup { session_id }
    /\ start_session(session_id)

-----------------------------------------------------------------------------
(* _create_patient_record / patient_service.create_patient                 *)

\* the row create_patient inserts; uuid4 ids are modelled as row numbers.
\* created_for is a history field: the session the row was created from.
PatientRow(patient_create, id, session_id) ==
    [ id |-> id,
      created_for |-> session_id,
      name |-> patient_create.name,
      age |-> patient_create.age,
      gender |-> patient_create.gender,
      triage_level |-> patient_create.triageLevel,
      patient_summary |-> patient_create.chiefComplaint,
      heart_rate |-> patient_create.vitals.heartRate,
      respiratory_rate |-> patient_create.vitals.respiratoryRate,
      pain_level |-> patient_create.vitals.painLevel ]

\* Does this call of _create_patient_record return a Patient?  PatientCreate
\* raises on a field outside its constraints; the insert succeeds or fails as
\* the database decides (db_ok), and fails once the table holds MaxPatients rows.
CreateSucceeds(session, urgency_score, db_ok) ==
    /\ PatientCreateValid(PatientCreateOf(session, urgency_score))
    /\ db_ok
    /\ Len(patients) < MaxPatients

priority_names == << "Critical (Level 1)", "Emergent (Level 2)", "Urgent (Level 3)",
                     "Less Urgent (Level 4)", "Non-Urgent (Level 5)" >>

\* variant: one more attempt
max_retries_plus_one == 3 + 1

max_retries == 3

\* the "complete" dict of _complete_assessment
CompleteResult(patient, urgency_score, last_answer, last_field) ==
    LET result ==
            [ type |-> "complete",
              message |-> << "Assessment complete! You have been assigned ",
                             priority_names[patient.triage_level],
                             " priority and added to the queue. A nurse will see you shortly." >>,
              patient_id |-> patient.id,
              urgency_score |-> urgency_score,
              triage_level |-> patient.triage_level,
              step |-> N,
              total_steps |-> N ]
    IN  IF last_answer # None /\ last_field # None
        THEN [ k \in DOMAIN result \cup { "user_answer", "previous_field" } |->
                 IF k = "user_answer" THEN last_answer[1]
                 ELSE IF k = "previous_field" THEN last_field[1]
                 ELSE result[k] ]
        ELSE result

\* the "error" dict of _complete_assessment's outer except
FinalizationError(cause) ==
    [ type |-> "error",
      message |-> "Sorry, there was an issue completing your assessment. Please try again or see the front desk.",
      error |-> cause,
      step |-> N,
      total_steps |-> N ]

\* variant: the flag is left as it was
MarkCompleteForgotten(session) == session

\* session.is_complete = True
MarkComplete(session) == [ session EXCEPT !.is_complete = TRUE ]

\* One pass of the retry loop of _complete_assessment, from the call of
\* _create_patient_record to the return or to asyncio.sleep.  call holds the
\* coroutine's locals (tries is a history of the attempts' results), resumed
\* tells that it was suspended, h is the heap as the coroutine leaves it, act
\* the session table.
Attempt(call, resumed, h, act) ==
    \E db_ok \in BOOLEAN :
    LET session == h[call.session]
        args == [ session_id |-> call.session_id ]
        rest == IF resumed THEN sleeping (-) SetToBag({ call }) ELSE sleeping
    IN  IF CreateSucceeds(session, call.urgency_score, db_ok)
        THEN LET row == PatientRow(PatientCreateOf(session, call.urgency_score),
                                   Len(patients) + 1, session.session_id)
             IN  /\ patients' = Append(patients, row)
                 /\ sleeping' = rest
                 /\ heap' = Collect([ h EXCEPT ![call.session] = MarkComplete(@) ],
                                    act, rest)
                 /\ last' = Returned("process_voice_response", args,
                                CompleteResult(row, call.urgency_score,
                                               call.last_answer, call.last_field),
                                Append(call.tries, TRUE))
        ELSE IF call.attempt = max_retries - 1
        THEN /\ patients' = patients
             /\ sleeping' = rest
             /\ heap' = Collect(h, act, rest)
             /\ last' = Returned("process_voice_response", args,
                            FinalizationError(
                                IF PatientCreateValid(PatientCreateOf(session, call.urgency_score))
                                THEN "create_patient failed" ELSE "ValidationError"),
                            Append(call.tries, FALSE))
        ELSE LET slp == rest (+) SetToBag({ [ call EXCEPT !.attempt = @ + 1,
                                                          !.tries = Append(@, FALSE) ] })
             IN  /\ BagCardinality(rest) < MaxCalls
                 /\ patients' = patients
                 /\ sleeping' = slp
                 /\ heap' = Collect(h, act, slp)
                 /\ last' = Suspended("process_voice_response", args, Append(call.tries, FALSE))

\* entry of _complete_assessment: the score is computed once, then the loop starts
_complete_assessment(session_id, r, h, last_answer, last_field) ==
    Attempt([ session_id |-> session_id,
              session |-> r,
              urgency_score |-> _calculate_urgency(h[r]),
              attempt |-> 0,
              last_answer |-> last_answer,
              last_field |-> last_field,
              tries |-> << >> ],
            FALSE, h, active_sessions)

-----------------------------------------------------------------------------
(* process_voice_response                                                  *)

\* variant: the retry outcome offers the question after the current one
RetryResultNextQuestion(question, index, error_message, transcript) ==
    [ type |-> "error",
      question |-> << error_message, " ", QUESTIONS[((index + 1) % N) + 1].text >>,
      question_id |-> QUESTIONS[((index + 1) % N) + 1].id,
      step |-> index + 1,
      total_steps |-> N,
      error |-> error_message,
      user_answer |-> transcript ]

\* variant: the hint is the same for every rejection
RetryResultGenericHint(question, index, error_message, transcript) ==
    [ type |-> "error",
      question |-> << "Invalid input.", " ", question.text >>,
      question_id |-> question.id,
      step |-> index + 1,
      total_steps |-> N,
      error |-> "Invalid input.",
      user_answer |-> transcript ]

\* the "error" dict returned for a rejected answer
RetryResult(question, index, error_message, transcript) ==
    [ type |-> "error",
      question |-> << error_message, " ", question.text >>,
      question_id |-> question.id,
      step |-> index + 1,
      total_steps |-> N,
      error |-> error_message,
      user_answer |-> transcript ]

\* variant: the question just answered is offered again
NextQuestionResultSameQuestion(next_question, index, cleaned_value, previous_field) ==
    [ type |-> "question",
      question |-> next_question.text,
      question_id |-> previous_field,
      step |-> index + 1,
      total_steps |-> N,
      user_answer |-> cleaned_value,
      previous_field |-> previous_field ]

\* the "question" dict returned after an accepted answer
NextQuestionResult(next_question, index, cleaned_value, previous_field) ==
    [ type |-> "question",
      question |-> next_question.text,
      question_id |-> next_question.id,
      step |-> index + 1,
      total_steps |-> N,
      user_answer |-> cleaned_value,
      previous_field |-> previous_field ]

\* variant: the index is not moved on
AcceptWithoutAdvance(session, question_id, cleaned_value) ==
    _update_patient_data(
        [ session EXCEPT !.responses = Put(@, question_id, cleaned_value) ],
        question_id, cleaned_value)

\* the session after an accepted answer: stored, derived field set, index moved on
Accept(session, question_id, cleaned_value) ==
    [ _update_patient_data(
          [ session EXCEPT !.responses = Put(@, question_id, cleaned_value) ],
          question_id, cleaned_value)
      EXCEPT !.current_question_index = @ + 1 ]

\* session.last_activity = datetime.now()
Touch(session, now) == [ session EXCEPT !.last_activity = now ]

\* variant: the guard looks at the flag
NoQuestionLeftIfComplete(session) == session.is_complete

\* variant: the guard is off by one
NoQuestionLeftOffByOne(session) == session.current_question_index >= N - 1

\* the guard on entry: no question is left to answer
NoQuestionLeft(session) == session.current_question_index >= N

\* variant: the interview is found to be over one question early
WasLastQuestionOneEarly(session) == session.current_question_index >= N - 1

\* variant: the interview is never found to be over
WasLastQuestionNever(session) == FALSE

\* the guard after an accepted answer: it was the last question
WasLastQuestion(session) == session.current_question_index >= N

\* self.QUESTIONS[index] raises IndexError outside the list
IndexError == [ exception |-> "IndexError", message |-> "list index out of range" ]

process_voice_response(session_id, transcript) ==
    LET args == [ session_id |-> session_id ]
        r == active_sessions[session_id]
        h1 == [ heap EXCEPT ![r] = Touch(@, clock) ]
        session == h1[r]
        current_question == QUESTIONS[session.current_question_index + 1]
        v == ValidationTable[current_question.validator][transcript]
        is_valid == v[1]
        cleaned_value == v[2]
        error_message == v[3]
        h2 == [ h1 EXCEPT ![r] = Accept(@, current_question.id, cleaned_value) ]
    IN  /\ UNCHANGED << active_sessions, clock, issued >>
        /\ IF session_id \notin DOMAIN active_sessions
           THEN /\ last' = Raised("process_voice_response", args,
                               [ exception |-> "ValueError",
                                 message |-> << "Session not found: ", session_id >> ])
                /\ UNCHANGED << heap, sleeping, patients >>
           ELSE IF NoQuestionLeft(session)
           THEN _complete_assessment(session_id, r, h1, None, None)
           ELSE IF session.current_question_index + 1 \notin DOMAIN QUESTIONS
           THEN /\ heap' = h1
                /\ last' = Raised("process_voice_response", args, IndexError)
                /\ UNCHANGED << sleeping, patients >>
           ELSE IF ~is_valid
           THEN /\ heap' = h1
                /\ last' = Returned("process_voice_response", args,
                               RetryResult(current_question, session.current_question_index,
                                           error_message, transcript), << >>)
                /\ UNCHANGED << sleeping, patients >>
           ELSE IF WasLastQuestion(h2[r])
           THEN _complete_assessment(session_id, r, h2,
                                     Some(cleaned_value), Some(current_question.id))
           ELSE IF h2[r].current_question_index + 1 \notin DOMAIN QUESTIONS
           THEN /\ heap' = h2
                /\ last' = Raised("process_voice_response", args, IndexError)
                /\ UNCHANGED << sleeping, patients >>
           ELSE /\ heap' = h2
                /\ last' = Returned("process_voice_response", args,
                               NextQuestionResult(QUESTIONS[h2[r].current_question_index + 1],
                                                  h2[r].current_question_index,
                                                  cleaned_value, current_question.id), << >>)
                /\ UNCHANGED << sleeping, patients >>

\* a coroutine suspended in asyncio.sleep(0.5) goes on with the next attempt
ResumeAfterSleep(call) ==
    /\ BagIn(call, sleeping)
    /\ Attempt(call, TRUE, heap, active_sessions)
    /\ UNCHANGED << active_sessions, clock, issued >>

-----------------------------------------------------------------------------
(* get_session_status, end_session, the clock                              *)

\* variant: reading the status counts as activity
get_session_status_touching(session_id) ==
    /\ last' = IF session_id \notin DOMAIN active_sessions
               THEN Returned("get_session_status", [ session_id |-> session_id ],
                        None, << >>)
               ELSE LET session == heap[active_sessions[session_id]]
                    IN  Returned("get_session_status", [ session_id |-> session_id ],
                            Some([ session_id |-> session_id,
                                   current_step |-> session.current_question_index + 1,
                                   total_steps |-> N,
                                   responses |-> session.responses,
                                   is_complete |-> session.is_complete,
                                   created_at |-> session.created_at,
                                   last_activity |-> session.last_activity ]), << >>)
    /\ heap' = IF session_id \notin DOMAIN active_sessions THEN heap
               ELSE [ heap EXCEPT ![active_sessions[session_id]] = Touch(@, clock) ]
    /\ UNCHANGED << active_sessions, sleeping, patients, clock, issued >>

get_session_status(session_id) ==
    /\ last' = IF session_id \notin DOMAIN active_sessions
               THEN Returned("get_session_status", [ session_id |-> session_id ],
                        None, << >>)
               ELSE LET session == heap[active_sessions[session_id]]
                    IN  Returned("get_session_status", [ session_id |-> session_id ],
                            Some([ session_id |-> session_id,
                                   current_step |-> session.current_question_index + 1,
                                   total_steps |-> N,
                                   responses |-> session.responses,
                                   is_complete |-> session.is_complete,
                                   created_at |-> session.created_at,
                                   last_activity |-> session.last_activity ]), << >>)
    /\ UNCHANGED << active_sessions, heap, sleeping, patients, clock, issued >>

\* DELETE /sessions/{session_id}: the 404 raised inside the try block is caught
\* by the handler's own except clause and leaves as a 500
end_session(session_id) ==
    /\ UNCHANGED issued
    /\ IF session_id \in DOMAIN active_sessions
        THEN /\ active_sessions' = Del(active_sessions, session_id)
             /\ heap' = Collect(heap, Del(active_sessions, session_id), sleeping)
             /\ last' = Returned("end_session", [ session_id |-> session_id ],
                            [ success |-> TRUE, session_id |-> session_id,
                              message |-> "Session ended successfully" ], << >>)
             /\ UNCHANGED << sleeping, patients, clock >>
        ELSE /\ last' = Raised("end_session", [ session_id |-> session_id ],
                            [ exception |-> "HTTPException", status_code |-> 500 ])
             /\ UNCHANGED << active_sessions, heap, sleeping, patients, clock >>

\* time passes
Tick ==
    /\ clock < MaxClock
    /\ clock' = clock + 1
    /\ UNCHANGED << active_sessions, heap, sleeping, patients, last, issued >>

-----------------------------------------------------------------------------
(* AISummaryCache: get, set, clear_expired.  None of them awaits, so each  *)
(* call runs to its end on the event loop before another one starts.       *)

triage_vars == << active_sessions, heap, sleeping, patients, issued >>

\* is the entry still fresh at the instant now?
Fresh(entry, now) == now - entry.timestamp < cache_duration

\* variant: an entry is still returned at the instant its age reaches the duration
AISummaryCache_get_inclusive(c, data, now) ==
    LET key == _generate_key(data)
    IN  IF key \in DOMAIN c
        THEN IF now - c[key].timestamp <= cache_duration
             THEN [ value |-> Some(c[key].summary), cache |-> c, deleted |-> << >>,
                    raises |-> FALSE ]
             ELSE [ value |-> None, cache |-> Del(c, key), deleted |-> << key >>,
                    raises |-> FALSE ]
        ELSE [ value |-> None, cache |-> c, deleted |-> << >>, raises |-> FALSE ]

\* variant: the entry is read without testing that the key is present
AISummaryCache_get_unguarded(c, data, now) ==
    LET key == _generate_key(data)
    IN  IF key \in DOMAIN c
        THEN IF Fresh(c[key], now)
             THEN [ value |-> Some(c[key].summary), cache |-> c, deleted |-> << >>,
                    raises |-> FALSE ]
             ELSE [ value |-> None, cache |-> Del(c, key), deleted |-> << key >>,
                    raises |-> FALSE ]
        ELSE [ value |-> None, cache |-> c, deleted |-> << >>, raises |-> TRUE ]

\* AISummaryCache.get: what it returns, the dict it leaves, the keys it deleted
AISummaryCache_get(c, data, now) ==
    LET key == _generate_key(data)
    IN  IF key \in DOMAIN c
        THEN IF Fresh(c[key], now)
             THEN [ value |-> Some(c[key].summary), cache |-> c, deleted |-> << >>,
                    raises |-> FALSE ]
             ELSE [ value |-> None, cache |-> Del(c, key), deleted |-> << key >>,
                    raises |-> FALSE ]
        ELSE [ value |-> None, cache |-> c, deleted |-> << >>, raises |-> FALSE ]

\* variant: an entry that is already there is kept
AISummaryCache_set_keep_existing(c, data, summary, now) ==
    IF _generate_key(data) \in DOMAIN c THEN c
    ELSE Put(c, _generate_key(data), [ summary |-> summary, timestamp |-> now ])

\* AISummaryCache.set
AISummaryCache_set(c, data, summary, now) ==
    Put(c, _generate_key(data), [ summary |-> summary, timestamp |-> now ])

\* variant: an entry whose age equals the duration survives the purge
expired_keys_exclusive(c, now) ==
    { key \in DOMAIN c : now - c[key].timestamp > cache_duration }

\* clear_expired: the keys it collects
expired_keys(c, now) ==
    { key \in DOMAIN c : now - c[key].timestamp >= cache_duration }

\* AISummaryCache.clear_expired
AISummaryCache_clear_expired(c, now) ==
    [ key \in DOMAIN c \ expired_keys(c, now) |-> c[key] ]

\* a caller reads the cache
get(data) ==
    LET r == AISummaryCache_get(cache, data, clock)
    IN  /\ cache' = r.cache
        /\ evicted' = evicted \cup Range(r.deleted)
        /\ last' = IF r.raises
                   THEN Raised("get", [ data |-> data ], [ exception |-> "KeyError" ])
                   ELSE Returned("get", [ data |-> data ], r.value, r.deleted)
        /\ UNCHANGED << triage_vars, clock, client >>

\* a caller stores a summary
set(data, summary) ==
    /\ cache' = AISummaryCache_set(cache, data, summary, clock)
    /\ evicted' = evicted \ { _generate_key(data) }
    /\ last' = Returned("set", [ data |-> data, summary |-> summary ], None, << >>)
    /\ UNCHANGED << triage_vars, clock, client >>

\* a caller purges the cache
clear_expired ==
    /\ cache' = AISummaryCache_clear_expired(cache, clock)
    /\ evicted' = evicted \cup (DOMAIN cache \ DOMAIN cache')
    /\ last' = Returned("clear_expired", << >>, None, << >>)
    /\ UNCHANGED << triage_vars, clock, client >>

\* time.time() moves on to one of the given instants
Elapse(instants) ==
    /\ \E now \in instants : now > clock /\ clock' = now
    /\ UNCHANGED << triage_vars, last, summary_vars >>

-----------------------------------------------------------------------------
(* AISummaryService: generate_symptoms_summary, generate_treatment_summary *)
(* and generate_queue_management_summary share one body; they differ in    *)
(* the 'type' added to the payload and in the text returned on failure.    *)
(* The coroutine awaits nothing: the OpenAI call is the synchronous one.   *)

unavailable_text == << "AI summary service unavailable. Please check configuration." >>

failure_text(kind) ==
    CASE kind = "symptoms" ->
           << "Unable to generate AI summary at this time. Please try again later." >>
      [] kind = "treatment" ->
           << "Unable to generate AI treatment recommendations at this time. Please try again later." >>
      [] kind = "queue_management" ->
           << "Unable to generate queue management recommendations at this time. Please try again later." >>

\* variant: the client test always passes
has_client_always == TRUE

\* self.client is truthy
has_client == client

\* what self.client.chat.completions.create(...) can do: raise, or return a
\* response whose message content is some text
ProviderResponses ==
    { [ raises |-> TRUE, content |-> << >> ],
      [ raises |-> FALSE, content |-> << " ", "A" >> ],
      [ raises |-> FALSE, content |-> << "B", " " >> ],
      [ raises |-> FALSE, content |-> << " " >> ] }

\* tries lists what became of the provider calls this call made
generate_summary(op, kind, patient_data, force_refresh) ==
    LET args == [ patient_data |-> patient_data, force_refresh |-> force_refresh ]
        data == WithType(patient_data, kind)
        key == _generate_key(data)
        looked == AISummaryCache_get(cache, data, clock)
        cached == IF force_refresh THEN None ELSE looked.value
        c1 == IF force_refresh THEN cache ELSE looked.cache
        c2 == AISummaryCache_clear_expired(c1, clock)
    IN  /\ UNCHANGED << triage_vars, clock, client >>
        /\ IF ~has_client
           THEN /\ last' = Returned(op, args, unavailable_text, << >>)
                /\ UNCHANGED << cache, evicted >>
           ELSE IF TruthyStr(cached)
           THEN /\ last' = Returned(op, args, cached[1], << >>)
                /\ cache' = c1
                /\ evicted' = evicted \cup (DOMAIN cache \ DOMAIN c1)
           ELSE \E response \in ProviderResponses :
                    IF response.raises
                    THEN /\ last' = Returned(op, args, failure_text(kind), << "raised" >>)
                         /\ cache' = c2
                         /\ evicted' = evicted \cup (DOMAIN cache \ DOMAIN c2)
                    ELSE LET summary == Strip(response.content)
                         IN  /\ last' = Returned(op, args, summary, << "completed" >>)
                             /\ cache' = AISummaryCache_set(c2, data, summary, clock)
                             /\ evicted' = (evicted \cup (DOMAIN cache \ DOMAIN c2)) \ { key }

generate_symptoms_summary(patient_data, force_refresh) ==
    generate_summary("generate_symptoms_summary", "symptoms", patient_data, force_refresh)

generate_treatment_summary(patient_data, force_refresh) ==
    generate_summary("generate_treatment_summary", "treatment", patient_data, force_refresh)

generate_queue_management_summary(queue_data, force_refresh) ==
    generate_summary("generate_queue_management_summary", "queue_management",
                     queue_data, force_refresh)

-----------------------------------------------------------------------------

\* One caller, one session id: the interview, finalization and its retries.
Next ==
    \/ /\ start_triage("s1")
       /\ UNCHANGED summary_vars
    \/ /\ \E transcript \in Transcripts : process_voice_response("s1", transcript)
       /\ UNCHANGED summary_vars
    \/ /\ \E call \in BagToSet(sleeping) : ResumeAfterSleep(call)
       /\ UNCHANGED summary_vars
    \/ /\ get_session_status("s1")
       /\ UNCHANGED summary_vars
    \/ /\ end_session("s1")
       /\ UNCHANGED summary_vars

Spec == Init /\ [][Next]_vars

\* The same with the wall clock advancing between the steps.
NextClock ==
    \/ /\ start_triage("s1")
       /\ UNCHANGED summary_vars
    \/ /\ \E transcript \in Transcripts : process_voice_response("s1", transcript)
       /\ UNCHANGED summary_vars
    \/ /\ \E call \in BagToSet(sleeping) : ResumeAfterSleep(call)
       /\ UNCHANGED summary_vars
    \/ /\ get_session_status("s1")
       /\ UNCHANGED summary_vars
    \/ /\ end_session("s1")
       /\ UNCHANGED summary_vars
    \/ /\ Tick
       /\ UNCHANGED summary_vars

SpecClock == Init /\ [][NextClock]_vars

\* Two session ids in use at once.
NextPair ==
    \/ /\ \E session_id \in SessionIds : start_triage(session_id)
       /\ UNCHANGED summary_vars
    \/ /\ \E session_id \in SessionIds, transcript \in PairTranscripts :
              process_voice_response(session_id, transcript)
       /\ UNCHANGED summary_vars
    \/ /\ \E call \in BagToSet(sleeping) : ResumeAfterSleep(call)
       /\ UNCHANGED summary_vars
    \/ /\ \E session_id \in SessionIds : get_session_status(session_id)
       /\ UNCHANGED summary_vars
    \/ /\ \E session_id \in SessionIds : end_session(session_id)
       /\ UNCHANGED summary_vars

SpecPair == Init /\ [][NextPair]_vars

\* The scorer and the level thresholds on their inputs: the session has seven
\* accepted answers, with an age at or next to every limit of validate_age,
\* _calculate_urgency and PatientCreate, and every combination of the first
\* three emergency answers; the mobility answer comes next.
ScorerAges == { 0, 1, 4, 5, 45, 65, 66, 70, 120, 121, 150 }

YesOrNo(flag) == IF flag THEN << "y","e","s" >> ELSE << "n","o" >>

\* the session after the answers were accepted in catalog order
Interviewed(session_id, transcripts) ==
    LET RECURSIVE after(_)
        after(k) ==
            IF k = 0 THEN TriageSession(session_id, 0)
            ELSE Accept(after(k - 1), QUESTIONS[k].id,
                        Validate(QUESTIONS[k].validator, transcripts[k])[2])
    IN  after(Len(transcripts))

InitScorer ==
    \E age \in ScorerAges, bleeding \in BOOLEAN, breathing \in BOOLEAN, chest_pain \in BOOLEAN :
        LET transcripts == << << "y","e","s" >>, IntToStr(age),
                              << "n","o","n","-","b","i","n","a","r","y" >>,
                              << "n","o","n","-","b","i","n","a","r","y" >>,
                              YesOrNo(bleeding), YesOrNo(breathing), YesOrNo(chest_pain) >>
            session == Interviewed("s1", transcripts)
        IN  /\ \A k \in DOMAIN transcripts :
                   Validate(QUESTIONS[k].validator, transcripts[k])[1]
            /\ active_sessions = Put(EmptyDict, "s1", 1)
            /\ heap = Put(<< >>, 1, session)
            /\ sleeping = EmptyBag
            /\ patients = << >>
            /\ clock = 0
            /\ last = Returned("process_voice_response", [ session_id |-> "s1" ],
                          NextQuestionResult(QUESTIONS[session.current_question_index + 1],
                                             session.current_question_index,
                                             session.responses["chest_pain"], "chest_pain"),
                          << >>)
            /\ issued = { "s1" }
            /\ AISummaryService__init__

NextScorer ==
    \/ /\ \E transcript \in Transcripts : process_voice_response("s1", transcript)
       /\ UNCHANGED summary_vars
    \/ /\ \E call \in BagToSet(sleeping) : ResumeAfterSleep(call)
       /\ UNCHANGED summary_vars

SpecScorer == InitScorer /\ [][NextScorer]_vars

\* One session interviewed with the wider set of transcripts.
NextValidators ==
    \/ /\ start_triage("s1")
       /\ UNCHANGED summary_vars
    \/ /\ \E transcript \in ValidatorTranscripts : process_voice_response("s1", transcript)
       /\ UNCHANGED summary_vars
    \/ /\ \E call \in BagToSet(sleeping) : ResumeAfterSleep(call)
       /\ UNCHANGED summary_vars

SpecValidators == Init /\ [][NextValidators]_vars

\* One session on the questions before the yes/no ones, with the transcripts
\* of the free-form questions.
NextAnswers ==
    \/ /\ start_triage("s1")
       /\ UNCHANGED summary_vars
    \/ /\ "s1" \in DOMAIN active_sessions
       /\ LET session == heap[active_sessions["s1"]]
          IN  /\ session.current_question_index < N
              /\ QUESTIONS[session.current_question_index + 1].type # "boolean"
       /\ \E transcript \in AnswerTranscripts : process_voice_response("s1", transcript)
       /\ UNCHANGED summary_vars

SpecAnswers == Init /\ [][NextAnswers]_vars

\* The cache on its own: payloads with the same content in two insertion
\* orders, and one with other content, at instants around one cache_duration.
CacheInstants == { 0, 1, cache_duration - 1, cache_duration, cache_duration + 1 }
Field_name == << "n","a","m","e" >>
Field_age == << "a","g","e" >>
CachePayloads ==
    { << << Field_name, "Ann" >>, << Field_age, "45" >> >>,
      << << Field_age, "45" >>, << Field_name, "Ann" >> >>,
      << << Field_name, "Bob" >>, << Field_age, "45" >> >> }
CacheSummaries == { << "A" >>, << "B" >> }

NextCache ==
    \/ \E data \in CachePayloads : get(data)
    \/ \E data \in CachePayloads, summary \in CacheSummaries : set(data, summary)
    \/ clear_expired
    \/ Elapse(CacheInstants)

SpecCache == Init /\ [][NextCache]_vars

\* The summary service: one patient payload and one queue payload, each summary
\* kind, with and without force_refresh, over one cache_duration.
SummaryInstants == { 0, cache_duration - 1, cache_duration }
PatientPayload == << << Field_name, "Ann" >>, << Field_age, "45" >> >>
QueuePayload == << << << "w","a","i","t","i","n","g" >>, "3" >> >>

NextSummary ==
    \/ \E force_refresh \in BOOLEAN : generate_symptoms_summary(PatientPayload, force_refresh)
    \/ \E force_refresh \in BOOLEAN : generate_treatment_summary(PatientPayload, force_refresh)
    \/ \E force_refresh \in BOOLEAN :
           generate_queue_management_summary(QueuePayload, force_refresh)
    \/ Elapse(SummaryInstants)

SpecSummary == Init /\ [][NextSummary]_vars

-----------------------------------------------------------------------------
(* Properties.                                                             *)

QuestionIds == { QUESTIONS[i].id : i \in DOMAIN QUESTIONS }

\* the rows of table p created from session session_id
RowsOf(p, session_id) == { i \in DOMAIN p : p[i].created_for = session_id }

\* last is a value process_voice_response returned
Answered == last.op = "process_voice_response" /\ last.status = "returned"
\* ... the completion summary
AnsweredComplete == Answered /\ last.result.type = "complete"
\* ... the retry outcome of a rejected answer
AnsweredRetry ==
    Answered /\ last.result.type = "error" /\ "question_id" \in DOMAIN last.result
\* ... the finalization failure
AnsweredFinalizationFailed ==
    Answered /\ last.result.type = "error" /\ "question_id" \notin DOMAIN last.result

\* a coroutine working on the object at address r is suspended
Suspends(r) == \E call \in BagToSet(sleeping) : call.session = r

C3_IndexAdvancesByOne ==
    [][ \A r \in DOMAIN heap' :
            /\ heap'[r].current_question_index \in 0..N
            /\ r \in DOMAIN heap =>
                 LET i == heap[r].current_question_index
                     j == heap'[r].current_question_index
                     session_id == heap[r].session_id
                 IN  /\ i <= j /\ j <= i + 1
                     /\ \A transcript \in Transcripts :
                            ( /\ session_id \in DOMAIN active_sessions
                              /\ active_sessions[session_id] = r
                              /\ i < N
                              /\ process_voice_response(session_id, transcript) )
                            => (j = i + 1 <=>
                                  ValidationTable[QUESTIONS[i + 1].validator][transcript][1])
      ]_vars

\* a status call on a session halfway through the catalog
C3_Witness ==
    /\ last.op = "get_session_status"
    /\ \E r \in DOMAIN heap : heap[r].current_question_index = 5

\* C4: process_voice_response with a transcript the current question's
\* validator rejects changes nothing of the session but last_activity, creates
\* no record and starts no finalization, and returns the retry outcome with the
\* id and step of the same question; an accepted answer submitted next stores
\* its value under that question and moves the index on by one.
C4_RejectedAnswerKeepsSession ==
    [][ \A session_id \in DOMAIN active_sessions, transcript \in Transcripts :
            LET r == active_sessions[session_id]
                session == heap[r]
                i == session.current_question_index
                v == ValidationTable[QUESTIONS[i + 1].validator][transcript]
            IN  (i < N /\ process_voice_response(session_id, transcript)) =>
                  IF ~v[1]
                  THEN /\ heap' = [ heap EXCEPT ![r] = [ session EXCEPT !.last_activity = clock ] ]
                       /\ UNCHANGED << active_sessions, patients, sleeping >>
                       /\ last'.status = "returned"
                       /\ last'.result.type = "error"
                       /\ last'.result.question_id = QUESTIONS[i + 1].id
                       /\ last'.result.question = << v[3], " ", QUESTIONS[i + 1].text >>
                       /\ last'.result.step = i + 1
                  ELSE (AnsweredRetry /\ last.args.session_id = session_id) =>
                         /\ last.result.question_id = QUESTIONS[i + 1].id
                         /\ heap'[r].current_question_index = i + 1
                         /\ heap'[r].responses =
                              Put(session.responses, last.result.question_id, v[2])
      ]_vars

\* a retry outcome for a question past the first, returned after time has passed
C4_Witness ==
    /\ AnsweredRetry
    /\ \E r \in DOMAIN heap :
           /\ heap[r].session_id = last.args.session_id
           /\ heap[r].current_question_index > 0
           /\ heap[r].last_activity # heap[r].created_at
           /\ last.result.question_id = QUESTIONS[heap[r].current_question_index + 1].id

\* the first record created from session session_id
FirstRecord(session_id) == patients[Min(RowsOf(patients, session_id))]

\* C5 as stated: whatever process_voice_response returns for a complete
\* session is the completion summary with the triage level, urgency score and
\* patient id of the session's first completion.
C5_Original ==
    \A r \in DOMAIN heap :
        (Answered /\ last.args.session_id = heap[r].session_id /\ heap[r].is_complete)
            => /\ last.result.type = "complete"
               /\ last.result.patient_id = FirstRecord(heap[r].session_id).id
               /\ last.result.triage_level = FirstRecord(heap[r].session_id).triage_level
               /\ last.result.urgency_score = _calculate_urgency(heap[r])

AllFalse(tries) == \A i \in DOMAIN tries : ~tries[i]

\* C6: a call of process_voice_response makes at most 3 record-creation
\* attempts, every attempt before the latest one has failed, the completion
\* summary is returned by a successful attempt, and the finalization failure
\* is returned only after exactly 3 failed attempts; a call that is suspended
\* between attempts has made 1 or 2 attempts, all failed.
C6_AtMostThreeAttempts ==
    /\ Len(last.tries) <= 3
    /\ AllFalse(SubSeq(last.tries, 1, Len(last.tries) - 1))
    /\ AnsweredComplete => (last.tries # << >> /\ last.tries[Len(last.tries)])
    /\ AnsweredFinalizationFailed => last.tries = << FALSE, FALSE, FALSE >>
    /\ last.status = "suspended" => (Len(last.tries) \in 1..2 /\ AllFalse(last.tries))
    /\ \A call \in BagToSet(sleeping) :
           /\ call.attempt = Len(call.tries)
           /\ call.attempt \in 1..2
           /\ AllFalse(call.tries)

\* finalization failed although the record was valid: the database refused 3 times
C6_Witness ==
    /\ AnsweredFinalizationFailed
    /\ last.tries = << FALSE, FALSE, FALSE >>
    /\ last.result.error = "create_patient failed"

\* C7: process_voice_response on a session at index N that is not complete
\* (its finalization has failed, or is still suspended) makes a new
\* record-creation attempt and returns no validator outcome; it leaves the
\* index, the answers and the derived fields as they are.
C7_FailedFinalizationIsRetried ==
    [][ \A session_id \in DOMAIN active_sessions, transcript \in Transcripts :
            LET r == active_sessions[session_id]
                session == heap[r]
            IN  ( /\ session.current_question_index = N
                  /\ ~session.is_complete
                  /\ process_voice_response(session_id, transcript) )
                => /\ last'.tries # << >>
                   /\ last'.status \in { "returned", "suspended" }
                   /\ last'.status = "returned" =>
                        /\ last'.result.type \in { "complete", "error" }
                        /\ "question_id" \notin DOMAIN last'.result
                        /\ "user_answer" \notin DOMAIN last'.result
                   /\ heap'[r] = [ session EXCEPT !.last_activity = clock,
                                                  !.is_complete = heap'[r].is_complete ]
      ]_vars

\* a call that entered at index N created the session's only record
C7_Witness ==
    /\ AnsweredComplete
    /\ "user_answer" \notin DOMAIN last.result
    /\ sleeping = EmptyBag
    /\ \E r \in DOMAIN heap :
           /\ heap[r].session_id = last.args.session_id
           /\ DOMAIN heap[r].responses = QuestionIds
           /\ Cardinality(RowsOf(patients, heap[r].session_id)) = 1

\* the run of C8: the call that accepted the last answer completed the session
\* at its first attempt, with bleeding No, breathing Yes, chest pain Yes,
\* mobility No and age 45
C8_Run(r) ==
    /\ AnsweredComplete
    /\ "user_answer" \in DOMAIN last.result
    /\ last.tries[1]
    /\ heap[r].session_id = last.args.session_id
    /\ heap[r].age = Some(45)
    /\ heap[r].emergency_responses =
         [ k \in { "bleeding", "breathing", "chest_pain", "mobility" } |->
             k \in { "breathing", "chest_pain" } ]

\* C8: in that run the call returns urgency score 1.0 and triage level 1, has
\* made exactly one record-creation attempt, and the table holds exactly one
\* record of the session, at level 1.
C8_EndToEndRun ==
    \A r \in DOMAIN heap :
        C8_Run(r) =>
            /\ last.result.urgency_score = F_1_0
            /\ last.result.triage_level = 1
            /\ Len(last.tries) = 1
            /\ Cardinality(RowsOf(patients, heap[r].session_id)) = 1
            /\ FirstRecord(heap[r].session_id).triage_level = 1

C8_Witness == \E r \in DOMAIN heap : C8_Run(r)

\* C9: process_voice_response with a session id that is not in the session
\* table raises ValueError and leaves the table, every session object, the
\* patient table and the suspended calls as they are; a session id that
\* end_session has removed is not in the table.
C9_UnknownSessionIsRejected ==
    [][ /\ \A session_id \in SessionIds, transcript \in PairTranscripts :
              (session_id \notin DOMAIN active_sessions
                  /\ process_voice_response(session_id, transcript))
              => /\ last'.status = "raised"
                 /\ last'.result.exception = "ValueError"
                 /\ UNCHANGED << active_sessions, heap, patients, sleeping >>
        /\ (last'.op = "end_session" /\ last'.status = "returned")
              => last'.args.session_id \notin DOMAIN active_sessions'
      ]_vars

\* ValueError for the id of a removed session, while another session is under way
C9_Witness ==
    /\ last.op = "process_voice_response"
    /\ last.status = "raised"
    /\ last.result.exception = "ValueError"
    /\ last.args.session_id \in issued
    /\ \E r \in DOMAIN heap : heap[r].current_question_index > 0

\* C10: start_session leaves the session registered under its id with index
\* 0, no answers, no derived fields and is_complete false, and returns the
\* text and id of the first question as step 1 of 8.
C10_StartSession ==
    last.op = "start_session" =>
        /\ last.args.session_id \in DOMAIN active_sessions
        /\ LET session == heap[active_sessions[last.args.session_id]]
           IN  /\ session.session_id = last.args.session_id
               /\ session.current_question_index = 0
               /\ session.responses = << >>
               /\ session.name = None /\ session.age = None /\ session.gender = None
               /\ session.chief_complaint = None
               /\ session.emergency_responses = << >>
               /\ ~session.is_complete
        /\ last.status = "returned"
        /\ last.result.type = "question"
        /\ last.result.question = QUESTIONS[1].text
        /\ last.result.question_id = "name"
        /\ last.result.step = 1
        /\ last.result.total_steps = 8

C10_Witness ==
    /\ last.op = "start_session"
    /\ last.args.session_id \in DOMAIN active_sessions

\* C11: the catalog order is name, age, gender, symptoms, bleeding,
\* breathing, chest_pain, mobility; an accepted answer to the question at
\* index i < N-1 returns the text and id of the question at index i+1; and
\* every question a process_voice_response offers is the first one of the
\* catalog that has no stored answer in the session.
C11_CatalogOrder ==
    [][ /\ [ i \in DOMAIN QUESTIONS |-> QUESTIONS[i].id ] =
              << "name", "age", "gender", "symptoms",
                 "bleeding", "breathing", "chest_pain", "mobility" >>
        /\ \A session_id \in DOMAIN active_sessions, transcript \in Transcripts :
              LET i == heap[active_sessions[session_id]].current_question_index
              IN  ( /\ i < N - 1
                    /\ ValidationTable[QUESTIONS[i + 1].validator][transcript][1]
                    /\ process_voice_response(session_id, transcript) )
                  => /\ last'.status = "returned"
                     /\ last'.result.type = "question"
                     /\ last'.result.question_id = QUESTIONS[i + 2].id
                     /\ last'.result.question = QUESTIONS[i + 2].text
                     /\ last'.result.step = i + 2
                     /\ last'.result.previous_field = QUESTIONS[i + 1].id
        /\ ( /\ last'.op = "process_voice_response"
             /\ last'.status = "returned"
             /\ "question_id" \in DOMAIN last'.result )
           => \A r \in DOMAIN heap' :
                 heap'[r].session_id = last'.args.session_id =>
                    /\ last'.result.question_id \notin DOMAIN heap'[r].responses
                    /\ \A k \in 1..N :
                          QUESTIONS[k].id = last'.result.question_id
                             => \A j \in 1..(k - 1) :
                                    QUESTIONS[j].id \in DOMAIN heap'[r].responses
      ]_vars

\* the last question is offered after the seventh answer was accepted
C11_Witness ==
    /\ Answered
    /\ last.result.type = "question"
    /\ last.result.question_id = "mobility"
    /\ last.result.previous_field = "chest_pain"

EmergencyIds == { "bleeding", "breathing", "chest_pain", "mobility" }

\* the derived field the answers map determines: absent without the answer
DerivedFrom(responses, question_id) ==
    IF question_id \in DOMAIN responses THEN Some(responses[question_id]) ELSE None

\* C12: the keys of a session's answers are the ids of the first
\* current_question_index questions, name, gender and chief complaint are the
\* stored answers, age is the stored age answer as an integer, and each
\* emergency flag is true iff its stored answer is "Yes".
C12_AnswersAndDerivedFields ==
    \A r \in DOMAIN heap :
        LET session == heap[r]
            responses == session.responses
        IN  /\ DOMAIN responses =
                 { QUESTIONS[k].id : k \in 1..session.current_question_index }
            /\ session.name = DerivedFrom(responses, "name")
            /\ session.gender = DerivedFrom(responses, "gender")
            /\ session.chief_complaint = DerivedFrom(responses, "symptoms")
            /\ "age" \notin DOMAIN responses => session.age = None
            /\ "age" \in DOMAIN responses =>
                 /\ session.age # None
                 /\ IntToStr(session.age[1]) = responses["age"]
            /\ DOMAIN session.emergency_responses = DOMAIN responses \cap EmergencyIds
            /\ \A k \in DOMAIN session.emergency_responses :
                   session.emergency_responses[k] <=> responses[k] = << "Y","e","s" >>

\* a session with all eight answers, one of them a "No"
C12_Witness ==
    \E r \in DOMAIN heap :
        /\ DOMAIN heap[r].responses = QuestionIds
        /\ heap[r].age = Some(130)
        /\ heap[r].responses["mobility"] = << "N","o" >>
        /\ ~heap[r].emergency_responses["mobility"]

Yes == << "Y","e","s" >>

\* score plus weight if the condition holds, in binary64
Plus(score, condition, weight) == IF condition THEN FloatAdd(score, weight) ELSE score

\* 0.3 + 0.4 if bleeding + 0.4 if breathing + 0.3 if chest pain + 0.3 if not
\* mobile, read off the stored answers and added in that order
WeightedSum(responses) ==
    Plus(Plus(Plus(Plus(F_0_3,
        responses["bleeding"] = Yes, F_0_4),
        responses["breathing"] = Yes, F_0_4),
        responses["chest_pain"] = Yes, F_0_3),
        responses["mobility"] # Yes, F_0_3)

\* min(1.0, score)
Capped(score) == IF FloatGE(score, F_1_0) THEN F_1_0 ELSE score

\* C13: for a session with all eight answers and an age of 5..65, the urgency
\* score is min(1.0, 0.3 + 0.4 if bleeding is Yes + 0.4 if breathing is Yes +
\* 0.3 if chest pain is Yes + 0.3 if mobility is No), the sum taken in binary64
\* in that order; a completion summary reports that score.
C13_AdditiveCappedScore ==
    \A r \in DOMAIN heap :
        LET session == heap[r]
        IN  ( /\ DOMAIN session.responses = QuestionIds
              /\ session.age[1] >= 5 /\ session.age[1] <= 65 )
            => /\ _calculate_urgency(session) = Capped(WeightedSum(session.responses))
               /\ (AnsweredComplete /\ last.args.session_id = session.session_id)
                    => last.result.urgency_score = Capped(WeightedSum(session.responses))

\* chest pain Yes and mobility No only, age 45: 0.3 + 0.3 + 0.3 below the cap
C13_Witness ==
    /\ AnsweredComplete
    /\ \E r \in DOMAIN heap :
           /\ heap[r].age = Some(45)
           /\ heap[r].emergency_responses =
                [ k \in EmergencyIds |-> k = "chest_pain" ]
           /\ last.result.urgency_score = FloatAdd(FloatAdd(F_0_3, F_0_3), F_0_3)
           /\ last.result.urgency_score # F_1_0

\* C14 as stated: for every stored age the score is the weighted sum plus 0.1
\* if age > 65, plus 0.2 if age < 5 (age 0 included), plus nothing for 5..65,
\* capped at 1.0.
C14_Original ==
    \A r \in DOMAIN heap :
        LET session == heap[r]
            age == session.age[1]
            sum == WeightedSum(session.responses)
        IN  DOMAIN session.responses = QuestionIds
            => _calculate_urgency(session) =
                 Capped(IF age > 65 THEN FloatAdd(sum, F_0_1)
                        ELSE IF age < 5 THEN FloatAdd(sum, F_0_2)
                        ELSE sum)

\* 1 + the number of thresholds 0.8, 0.6, 0.4, 0.2 the score is below
LevelByThresholds(score) ==
    1 + Cardinality({ threshold \in { F_0_8, F_0_6, F_0_4, F_0_2 } :
                        ~FloatGE(score, threshold) })

\* C15: the triage level of a completion summary, and of the record created,
\* is 1 for a reported score >= 0.8, else 2 for >= 0.6, else 3 for >= 0.4,
\* else 4 for >= 0.2, else 5; with no urgent answer and an age above 65 the
\* score is exactly 0.4 and the level 3.
C15_LevelThresholds ==
    AnsweredComplete =>
        /\ last.result.triage_level = LevelByThresholds(last.result.urgency_score)
        /\ patients[last.result.patient_id].triage_level = last.result.triage_level
        /\ \A r \in DOMAIN heap :
               ( /\ heap[r].session_id = last.args.session_id
                 /\ heap[r].age[1] > 65
                 /\ heap[r].emergency_responses = [ k \in EmergencyIds |-> k = "mobility" ] )
               => /\ last.result.urgency_score = F_0_4
                  /\ last.result.triage_level = 3

\* the completion of a 66-year-old with no urgent answer: 0.4, level 3
C15_Witness ==
    /\ AnsweredComplete
    /\ last.result.urgency_score = F_0_4
    /\ last.result.triage_level = 3
    /\ \E r \in DOMAIN heap : heap[r].age = Some(66)

\* the session with the emergency answer k set to flag
WithFlag(session, k, flag) ==
    [ session EXCEPT !.emergency_responses = Put(@, k, flag) ]

AllUrgent == [ k \in EmergencyIds |-> k # "mobility" ]

\* C16: with everything else equal, the score with bleeding, breathing or
\* chest pain Yes is at least the score with it No, and the score with
\* mobility No is at least the score with it Yes; no score exceeds 1.0; all
\* four answers urgent at age 70 complete with score 1.0 and level 1.
C16_MonotoneAndCapped ==
    \A r \in DOMAIN heap :
        LET session == heap[r]
        IN  /\ FloatGE(F_1_0, _calculate_urgency(session))
            /\ \A k \in EmergencyIds :
                   FloatGE(_calculate_urgency(WithFlag(session, k, k # "mobility")),
                           _calculate_urgency(WithFlag(session, k, k = "mobility")))
            /\ ( /\ session.emergency_responses = AllUrgent
                 /\ session.age = Some(70) )
               => /\ _calculate_urgency(session) = F_1_0
                  /\ (AnsweredComplete /\ last.args.session_id = session.session_id)
                       => /\ last.result.urgency_score = F_1_0
                          /\ last.result.triage_level = 1

C16_Witness ==
    /\ AnsweredComplete
    /\ last.result.urgency_score = F_1_0
    /\ last.result.triage_level = 1
    /\ \E r \in DOMAIN heap :
           heap[r].emergency_responses = AllUrgent /\ heap[r].age = Some(70)

\* C17 as stated: a process_voice_response that arrives for a session while
\* another call on that session is suspended changes neither the session nor
\* the patient table.
C17_Original ==
    [][ \A session_id \in DOMAIN active_sessions, transcript \in Transcripts :
            ( /\ Suspends(active_sessions[session_id])
              /\ process_voice_response(session_id, transcript) )
            => /\ heap'[active_sessions[session_id]] = heap[active_sessions[session_id]]
               /\ patients' = patients
      ]_vars

\* C18 as stated: once a session is removed from the session table, no
\* patient record is created for it and no field of it changes.
C18_Original ==
    [][ \A r \in DOMAIN heap :
            heap[r].session_id \notin DOMAIN active_sessions
            => /\ RowsOf(patients', heap[r].session_id) = RowsOf(patients, heap[r].session_id)
               /\ r \in DOMAIN heap' => heap'[r] = heap[r]
      ]_vars

\* C19: a step of process_voice_response on one session id, from its call or
\* from the end of a retry delay, leaves every session with another id as it
\* is and creates no record for it.
C19_SessionsAreIndependent ==
    [][ last'.op = "process_voice_response" =>
          \A other \in DOMAIN active_sessions \ { last'.args.session_id } :
              /\ heap[active_sessions[other]].session_id = other
              /\ active_sessions[other] \in DOMAIN heap'
              /\ heap'[active_sessions[other]] = heap[active_sessions[other]]
              /\ RowsOf(patients', other) = RowsOf(patients, other)
      ]_vars

\* while a call on one session is suspended between attempts, a call on the
\* other session has returned the next question
C19_Witness ==
    /\ Answered
    /\ last.result.type = "question"
    /\ \E call \in BagToSet(sleeping) : call.session_id # last.args.session_id

\* C20: get_session_status returns None for an id that is not in the session
\* table and, for an id in it, the session's step, answers, is_complete and
\* both timestamps; it changes no session, not the table, the patient table
\* or the suspended calls.
C20_StatusReadsOnly ==
    [][ last'.op = "get_session_status" =>
          /\ UNCHANGED << active_sessions, heap, sleeping, patients >>
          /\ last'.status = "returned"
          /\ IF last'.args.session_id \notin DOMAIN active_sessions
             THEN last'.result = None
             ELSE LET session == heap[active_sessions[last'.args.session_id]]
                      snapshot == last'.result[1]
                  IN  /\ last'.result # None
                      /\ snapshot.session_id = last'.args.session_id
                      /\ snapshot.current_step = session.current_question_index + 1
                      /\ snapshot.total_steps = 8
                      /\ snapshot.responses = session.responses
                      /\ snapshot.is_complete = session.is_complete
                      /\ snapshot.created_at = session.created_at
                      /\ snapshot.last_activity = session.last_activity
      ]_vars

\* a snapshot taken after the clock moved on shows the earlier last activity
C20_Witness ==
    /\ last.op = "get_session_status"
    /\ last.result # None
    /\ last.result[1].last_activity < clock
    /\ last.result[1].current_step > 1
    /\ heap[active_sessions[last.args.session_id]].last_activity < clock

\* the hints each validator can give
Hints ==
    [ validate_name |-> { "Please provide a name with at least 2 characters.",
                          "Please provide a name using only letters." },
      validate_age |-> { "Please provide your age as a number.",
                         "Please provide an age between 0 and 150.",
                         "Please provide a valid age." },
      validate_gender |-> { "Please say 'male', 'female', or 'other'." },
      validate_symptoms |-> { "Please describe your symptoms in more detail." },
      validate_boolean |-> { "Please answer with 'yes' or 'no'." } ]

\* C21: a rejected answer returns a retry outcome whose error is a non-empty
\* hint of the current question's validator, shared with no other validator,
\* and whose question text is that hint, a space, and the catalog text of the
\* current question.
C21_RetryRepeatsQuestionWithHint ==
    [][ \A session_id \in DOMAIN active_sessions, transcript \in ValidatorTranscripts :
            LET i == heap[active_sessions[session_id]].current_question_index
                validator == QUESTIONS[i + 1].validator
            IN  ( /\ i < N
                  /\ ~ValidationTable[validator][transcript][1]
                  /\ process_voice_response(session_id, transcript) )
                => /\ last'.result.type = "error"
                   /\ last'.result.error # ""
                   /\ last'.result.error \in Hints[validator]
                   /\ \A other \in DOMAIN Hints \ { validator } :
                          last'.result.error \notin Hints[other]
                   /\ last'.result.question =
                        << last'.result.error, " ", QUESTIONS[i + 1].text >>
                   /\ last'.result.question_id = QUESTIONS[i + 1].id
                   /\ last'.result.user_answer = transcript
      ]_vars

\* "200" rejected as an age: the range hint before "What is your age?"
C21_Witness ==
    /\ AnsweredRetry
    /\ last.result.question_id = "age"
    /\ last.result.user_answer = << "2","0","0" >>
    /\ last.result.question =
         << "Please provide an age between 0 and 150.", " ", "What is your age?" >>

\* C22: a process_voice_response for a session in the session table raises
\* nothing: it returns a question, a retry, the completion summary or the
\* finalization failure, or is suspended in the retry delay after fewer than 3
\* failed attempts and then goes on to return one of the last two.
C22_NeverRaisesForKnownSession ==
    [][ last'.op = "process_voice_response" =>
          /\ last'.status = "raised" =>
               /\ last'.result.exception = "ValueError"
               /\ last'.args.session_id \notin DOMAIN active_sessions
          /\ last'.status = "returned" => last'.result.type \in { "question", "error", "complete" }
          /\ last'.status = "suspended" => Len(last'.tries) < 3
          /\ \A call \in BagToSet(sleeping) :
                ResumeAfterSleep(call) =>
                    \/ last'.status = "returned" /\ last'.result.type \in { "error", "complete" }
                    \/ last'.status = "suspended" /\ Len(last'.tries) = Len(call.tries) + 1
      ]_vars

\* the finalization failure returned for an accepted age PatientCreate rejects
C22_Witness ==
    /\ AnsweredFinalizationFailed
    /\ last.result.error = "ValidationError"
    /\ \E r \in DOMAIN heap : heap[r].age = Some(123)

\* the words validate_boolean looks for
YesWords == { << "y","e","s" >>, << "y","e","a","h" >>, << "y","e","p" >>, << "y","u","p" >>,
              << "s","u","r","e" >>, << "d","e","f","i","n","i","t","e","l","y" >> }
NoWords == { << "n","o" >>, << "n","o","p","e" >>, << "n","a","h" >>, << "n","o","t" >> }

\* the answer stored by a call that accepted one, or None
Stored(session_before, session_after) ==
    IF session_after.current_question_index = session_before.current_question_index
    THEN None
    ELSE Some(session_after.responses[
                  QUESTIONS[session_before.current_question_index + 1].id])

\* the outcome the yes/no rule gives for a text
YesNoRule(transcript) ==
    LET text == StripPunctuation(Lower(transcript))
    IN  IF \E word \in YesWords : Contains(text, word) THEN Some(<< "Y","e","s" >>)
        ELSE IF \E word \in NoWords : Contains(text, word) THEN Some(<< "N","o" >>)
        ELSE None

\* C29: on a yes/no question the stored answer is Yes if the lower-cased text
\* without punctuation contains a positive word, else No if it contains a
\* negative word, else the answer is rejected; "yeah sure" and "not sure" give
\* Yes, "nope" gives No, "maybe" is rejected.
C29_YesNoValidator ==
    [][ \A session_id \in DOMAIN active_sessions, transcript \in ValidatorTranscripts :
            LET r == active_sessions[session_id]
                i == heap[r].current_question_index
            IN  ( /\ i < N
                  /\ QUESTIONS[i + 1].type = "boolean"
                  /\ process_voice_response(session_id, transcript) )
                => /\ Stored(heap[r], heap'[r]) = YesNoRule(transcript)
                   /\ transcript \in { << "y","e","a","h"," ","s","u","r","e" >>,
                                       << "n","o","t"," ","s","u","r","e" >> }
                        => Stored(heap[r], heap'[r]) = Some(<< "Y","e","s" >>)
                   /\ transcript = << "n","o","p","e" >>
                        => Stored(heap[r], heap'[r]) = Some(<< "N","o" >>)
                   /\ transcript = << "m","a","y","b","e" >>
                        => Stored(heap[r], heap'[r]) = None /\ last'.result.type = "error"
      ]_vars

\* "not sure", which holds a negative and a positive word, was stored as Yes
C29_Witness ==
    /\ Answered
    /\ last.result.type = "question"
    /\ last.result.previous_field = "bleeding"
    /\ last.result.user_answer = << "Y","e","s" >>
    /\ \E r \in DOMAIN heap : heap[r].emergency_responses = [ k \in { "bleeding" } |-> TRUE ]

Letters == Range(LowerCase) \cup Range(UpperCase)

\* name is title case: words of letters, separated by single spaces, each with
\* an upper-case first letter and lower-case letters after it
IsTitleCase(name) ==
    \A j \in DOMAIN name :
        IF name[j] = " "
        THEN j > 1 /\ j < Len(name) /\ name[j - 1] # " "
        ELSE IF j = 1 \/ name[j - 1] = " "
             THEN name[j] \in Range(UpperCase)
             ELSE name[j] \in Range(LowerCase)

IsLetterChar(c) == c \in Letters

\* C30: on the name question, with the text trimmed and its punctuation
\* removed, the answer is rejected if fewer than 2 characters are left or one
\* of them is neither a letter nor a space; otherwise the stored name is in
\* title case and has the letters of the text in their order; "John! Smith"
\* is stored as "John Smith", "J" and "123" are rejected.
C30_NameValidator ==
    [][ \A session_id \in DOMAIN active_sessions, transcript \in ValidatorTranscripts :
            LET r == active_sessions[session_id]
                text == StripPunctuation(Strip(transcript))
                stored == Stored(heap[r], heap'[r])
            IN  ( /\ heap[r].current_question_index = 0
                  /\ process_voice_response(session_id, transcript) )
                => /\ IF Len(text) < 2 \/ \E j \in DOMAIN text : text[j] \notin Letters \cup { " " }
                      THEN stored = None /\ last'.result.type = "error"
                      ELSE /\ stored # None
                           /\ IsTitleCase(stored[1])
                           /\ Lower(SelectSeq(stored[1], IsLetterChar))
                                = Lower(SelectSeq(text, IsLetterChar))
                   /\ transcript = << "J","o","h","n","!"," ","S","m","i","t","h" >>
                        => stored = Some(<< "J","o","h","n"," ","S","m","i","t","h" >>)
                   /\ transcript \in { << "J" >>, << "1","2","3" >> } => stored = None
      ]_vars

\* "John! Smith" was stored as "John Smith"
C30_Witness ==
    /\ Answered
    /\ last.result.type = "question"
    /\ last.result.previous_field = "name"
    /\ last.result.user_answer = << "J","o","h","n"," ","S","m","i","t","h" >>

\* the entry a payload is stored under, and whether a call read or wrote it
KeyOf(data) == _generate_key(data)
SameContent(d1, d2) == Range(d1) = Range(d2)
IsCall(op) == last' # last /\ last'.op = op

\* C23: a get that directly follows set(k, v) with no time elapsed returns v,
\* whether or not k held another value before that set.
C23_SetThenGet ==
    [][(/\ last.op = "set"
        /\ IsCall("get")
        /\ last'.args.data = last.args.data
        /\ clock = cache[KeyOf(last.args.data)].timestamp)
       => /\ last'.status = "returned"
          /\ last'.result = Some(last.args.summary)]_vars

\* a get has just returned the value stored at this very instant, after the
\* first instant (so that sets at earlier instants came before it)
C23_Witness ==
    /\ last.op = "get"
    /\ last.result = Some(<< "B" >>)
    /\ clock > 0
    /\ cache[KeyOf(last.args.data)].timestamp = clock

\* C24: an entry is visible exactly while clock - timestamp < cache_duration,
\* the timestamp being that of the latest set of the key: a get of a fresh
\* entry returns its summary and changes nothing, a get at or after expiry
\* returns None and removes the entry, and a set stamps the entry with the
\* current instant.
C24_VisibleWhileFresh ==
    [][/\ IsCall("get") =>
            LET key == KeyOf(last'.args.data)
            IN  IF key \in DOMAIN cache /\ clock - cache[key].timestamp < 30 * 60
                THEN /\ last'.result = Some(cache[key].summary)
                     /\ cache' = cache
                ELSE /\ last'.result = None
                     /\ key \notin DOMAIN cache'
       /\ IsCall("set") =>
            cache'[KeyOf(last'.args.data)] =
                [ summary |-> last'.args.summary, timestamp |-> clock ]]_vars

\* a get at the very instant an entry's age reaches 30 minutes found it expired
C24_Witness ==
    /\ last.op = "get"
    /\ last.result = None
    /\ last.tries = << KeyOf(last.args.data) >>
    /\ clock = 30 * 60

\* C25: payloads with the same fields and values in different insertion
\* orders have the same key: right after set(d, v), a get of any payload with
\* the content of d would return v.
C25_KeyIgnoresInsertionOrder ==
    [][IsCall("set") =>
          \A data \in CachePayloads :
              SameContent(data, last'.args.data) =>
                  /\ KeyOf(data) = KeyOf(last'.args.data)
                  /\ AISummaryCache_get(cache', data, clock').value
                         = Some(last'.args.summary)]_vars

\* a summary has just been stored under the payload with the name first, and
\* a get of the payload with the age first would return it
C25_Witness ==
    /\ last.op = "set"
    /\ last.args.data[1][1] = Field_name
    /\ \E data \in CachePayloads :
           /\ data # last.args.data
           /\ data[1][1] = Field_age
           /\ SameContent(data, last.args.data)
           /\ AISummaryCache_get(cache, data, clock).value = Some(last.args.summary)

\* C26: calls of get and clear_expired interleave as whole calls.  A get of a
\* key whose entry has expired, or was already evicted by another call,
\* returns None without raising, clear_expired returns without raising, and
\* neither removes an entry that has not expired.
C26_EvictionIsRaceSafe ==
    [][/\ IsCall("get") =>
            LET key == KeyOf(last'.args.data)
            IN  /\ last'.status = "returned"
                /\ (key \notin DOMAIN cache \/ ~Fresh(cache[key], clock))
                       => last'.result = None
       /\ IsCall("clear_expired") => last'.status = "returned"
       /\ (IsCall("get") \/ IsCall("clear_expired")) =>
            \A key \in DOMAIN cache :
                Fresh(cache[key], clock) => key \in DOMAIN cache' /\ cache'[key] = cache[key]]_vars

\* a get found nothing under a key another call had already evicted, while a
\* fresh entry of another key is still stored
C26_Witness ==
    /\ last.op = "get"
    /\ last.result = None
    /\ last.tries = << >>
    /\ KeyOf(last.args.data) \in evicted
    /\ \E key \in DOMAIN cache : Fresh(cache[key], clock)

\* C27: clear_expired removes exactly the entries with clock - timestamp >=
\* cache_duration and leaves the others as they were; an entry it removes is
\* one a get at the same instant would not have returned.
C27_PurgeRemovesExactlyExpired ==
    [][IsCall("clear_expired") =>
          /\ DOMAIN cache' = { key \in DOMAIN cache : clock - cache[key].timestamp < 30 * 60 }
          /\ \A key \in DOMAIN cache' : cache'[key] = cache[key]
          /\ \A data \in CachePayloads :
                 KeyOf(data) \in DOMAIN cache \ DOMAIN cache'
                     => AISummaryCache_get(cache, data, clock).value = None]_vars

\* a purge at the instant an entry's age reaches 30 minutes removed it and
\* kept a younger one
C27_Witness ==
    /\ last.op = "clear_expired"
    /\ clock = 30 * 60
    /\ evicted # {}
    /\ \E key \in DOMAIN cache : cache[key].timestamp = 1

GenerateOps ==
    { "generate_symptoms_summary", "generate_treatment_summary",
      "generate_queue_management_summary" }

\* C28: with no client configured, a summary-generation call returns the
\* fixed "service unavailable" text: it raises nothing, makes no provider
\* call, and leaves the cache as it was.
C28_UnavailableWithoutClient ==
    [][(~client /\ last' # last /\ last'.op \in GenerateOps)
       => /\ last'.status = "returned"
          /\ last'.result = unavailable_text
          /\ last'.tries = << >>
          /\ cache' = cache
          /\ evicted' = evicted]_vars

\* a treatment summary was asked for with no client configured, bypassing
\* the cache, and the fixed text came back
C28_Witness ==
    /\ ~client
    /\ last.op = "generate_treatment_summary"
    /\ last.args.force_refresh
    /\ last.status = "returned"
    /\ last.result = unavailable_text
    /\ cache = EmptyDict

\* a step of process_voice_response on the session while it is at question index
AnswersAt(index, session_id, transcript) ==
    /\ session_id \in DOMAIN active_sessions
    /\ heap[active_sessions[session_id]].current_question_index = index
    /\ process_voice_response(session_id, transcript)

\* the answer that step stored, or None
StoredBy(session_id) ==
    Stored(heap[active_sessions[session_id]], heap'[active_sessions[session_id]])

\* the number a row of decimal digits denotes
RECURSIVE DecimalValue(_)
DecimalValue(ds) ==
    IF ds = << >> THEN 0
    ELSE 10 * DecimalValue(SubSeq(ds, 1, Len(ds) - 1))
         + (CHOOSE d \in 0..9 : Digits[d + 1] = ds[Len(ds)])

\* the first contiguous digit run of a text that holds a digit
FirstRun(text) ==
    LET first == Min({ i \in DOMAIN text : IsDigit(text[i]) })
        end == CHOOSE j \in first..Len(text) :
                   /\ \A k \in first..j : IsDigit(text[k])
                   /\ j = Len(text) \/ ~IsDigit(text[j + 1])
    IN  SubSeq(text, first, end)

\* the outcome the age rule gives for a text: the value of its first digit
\* run, or None
AgeRule(text) ==
    IF \A i \in DOMAIN text : ~IsDigit(text[i]) THEN None
    ELSE IF DecimalValue(FirstRun(text)) > 150 THEN None
    ELSE Some(DecimalValue(FirstRun(text)))

\* text is the decimal numeral of n, without leading zeros
IsNumeralOf(text, n) ==
    /\ text # << >>
    /\ \A i \in DOMAIN text : IsDigit(text[i])
    /\ Len(text) > 1 => text[1] # "0"
    /\ DecimalValue(text) = n

\* C31: on the age question the first contiguous digit run of the text is
\* parsed; the answer is rejected if the text has no digit or the value is
\* outside 0..150, and otherwise the stored answer is the numeral of that
\* value; digit runs after the first have no influence ("I'm 30 years old"
\* and "30 or 200" are stored as "30", "abc", "200" and "200 or 30" are
\* rejected).
C31_AgeValidator ==
    [][ \A transcript \in AnswerTranscripts :
            AnswersAt(1, "s1", transcript)
            => /\ IF AgeRule(transcript) = None
                  THEN StoredBy("s1") = None /\ last'.result.type = "error"
                  ELSE /\ StoredBy("s1") # None
                       /\ IsNumeralOf(StoredBy("s1")[1], AgeRule(transcript)[1])
               /\ transcript \in { << "I","'","m"," ","3","0"," ","y","e","a","r","s"," ","o","l","d" >>, << "3","0"," ","o","r"," ","2","0","0" >> }
                    => StoredBy("s1") = Some(<< "3","0" >>)
               /\ transcript \in { << "a","b","c" >>, << "2","0","0" >>, << "2","0","0"," ","o","r"," ","3","0" >> }
                    => StoredBy("s1") = None
      ]_vars

\* a text whose first digit run is "30" was stored as the age "30"
C31_Witness ==
    /\ Answered
    /\ last.result.type = "question"
    /\ last.result.previous_field = "age"
    /\ last.result.user_answer = << "3","0" >>
    /\ \E r \in DOMAIN heap : heap[r].age = Some(30)

\* the outcome the gender rule gives for a text
GenderRule(text) ==
    LET lower == Lower(text)
    IN  IF Contains(lower, << "f","e","m","a","l","e" >>) THEN Some(<< "F","e","m","a","l","e" >>)
        ELSE IF Contains(lower, << "m","a","l","e" >>) THEN Some(<< "M","a","l","e" >>)
        ELSE IF \/ Contains(lower, << "o","t","h","e","r" >>)
                \/ Contains(lower, << "n","o","n","-","b","i","n","a","r","y" >>)
                \/ Contains(lower, << "n","o","n","b","i","n","a","r","y" >>)
        THEN Some(<< "O","t","h","e","r" >>)
        ELSE None

\* C32: on the gender question, whatever the case of the letters, a text
\* containing "female" is stored as Female; otherwise one containing "male" as
\* Male; otherwise one containing "other", "non-binary" or "nonbinary" as
\* Other; otherwise the answer is rejected ("FEMALE or male" gives Female,
\* "male other" gives Male, "abc" is rejected).
C32_GenderValidator ==
    [][ \A transcript \in AnswerTranscripts :
            AnswersAt(2, "s1", transcript)
            => /\ StoredBy("s1") = GenderRule(transcript)
               /\ GenderRule(transcript) = None => last'.result.type = "error"
               /\ transcript = << "F","E","M","A","L","E"," ","o","r"," ","m","a","l","e" >>
                    => StoredBy("s1") = Some(<< "F","e","m","a","l","e" >>)
               /\ transcript = << "m","a","l","e"," ","o","t","h","e","r" >>
                    => StoredBy("s1") = Some(<< "M","a","l","e" >>)
               /\ transcript = << "a","b","c" >> => StoredBy("s1") = None
      ]_vars

\* an answer was stored as the gender Female: each accepted text that holds
\* "female" also holds "male"
C32_Witness ==
    /\ Answered
    /\ last.result.type = "question"
    /\ last.result.previous_field = "gender"
    /\ last.result.user_answer = << "F","e","m","a","l","e" >>
    /\ \E r \in DOMAIN heap : heap[r].gender = Some(<< "F","e","m","a","l","e" >>)

\* a text without the spaces at its ends
Trimmed(text) ==
    LET inked == { i \in DOMAIN text : text[i] # " " }
    IN  IF inked = {} THEN << >>
        ELSE SubSeq(text, Min(inked), CHOOSE i \in inked : \A j \in inked : j <= i)

\* C33: on the symptoms question the answer is rejected exactly when the
\* trimmed text has fewer than 10 characters; otherwise the trimmed text
\* itself is stored ("  chest pain " is stored as "chest pain", " headache "
\* is rejected).
C33_SymptomsValidator ==
    [][ \A transcript \in AnswerTranscripts :
            AnswersAt(3, "s1", transcript)
            => /\ IF Len(Trimmed(transcript)) < 10
                  THEN StoredBy("s1") = None /\ last'.result.type = "error"
                  ELSE StoredBy("s1") = Some(Trimmed(transcript))
               /\ transcript = << " "," ","c","h","e","s","t"," ","p","a","i","n"," " >>
                    => StoredBy("s1") = Some(<< "c","h","e","s","t"," ","p","a","i","n" >>)
               /\ transcript = << " ","h","e","a","d","a","c","h","e"," " >> => StoredBy("s1") = None
      ]_vars

\* "  chest pain " was stored, trimmed to its 10 characters
C33_Witness ==
    /\ Answered
    /\ last.result.type = "question"
    /\ last.result.previous_field = "symptoms"
    /\ last.result.user_answer = << "c","h","e","s","t"," ","p","a","i","n" >>
    /\ \E r \in DOMAIN heap : heap[r].chief_complaint = Some(<< "c","h","e","s","t"," ","p","a","i","n" >>)

\* C39 as stated: every name a session has stored has at least 2 characters
\* and consists of letters, with single spaces between the words only.
C39_Original ==
    \A r \in DOMAIN heap :
        "name" \in DOMAIN heap[r].responses
        => LET name == heap[r].responses["name"]
           IN  /\ heap[r].name = Some(name)
               /\ Len(name) >= 2
               /\ \A j \in DOMAIN name :
                      IF name[j] = " "
                      THEN j > 1 /\ j < Len(name) /\ name[j - 1] # " "
                      ELSE name[j] \in Letters

\* C34 as stated: whatever calls of process_voice_response are made on a
\* session, in whatever interleaving, at most one patient record is created
\* for it.
C34_Original ==
    \A session_id \in SessionIds : Cardinality(RowsOf(patients, session_id)) <= 1

\* this step made a record-creation attempt
AttemptMade ==
    /\ last'.op = "process_voice_response"
    /\ last'.tries # << >>
    /\ last' # last \/ patients' # patients \/ sleeping' # sleeping

\* C35: a record-creation attempt is made only for a session whose index is N
\* and which holds an accepted answer for each of the 8 questions, and a
\* created record has the name, age, gender and symptoms of those answers.
C35_FinalizationOnlyWhenExhausted ==
    [][ AttemptMade =>
          \E r \in DOMAIN heap :
              LET session == IF r \in DOMAIN heap' THEN heap'[r] ELSE heap[r]
              IN  /\ session.session_id = last'.args.session_id
                  /\ session.current_question_index = N
                  /\ DOMAIN session.responses = QuestionIds
                  /\ patients' # patients =>
                        LET row == patients'[Len(patients')]
                        IN  /\ Len(patients') = Len(patients) + 1
                            /\ row.created_for = session.session_id
                            /\ row.name = session.responses["name"]
                            /\ IsNumeralOf(session.responses["age"], row.age)
                            /\ row.gender = session.responses["gender"]
                            /\ row.patient_summary = session.responses["symptoms"]
      ]_vars

\* the call that accepted the eighth answer created the record
C35_Witness ==
    /\ AnsweredComplete
    /\ "user_answer" \in DOMAIN last.result
    /\ last.result.previous_field = "mobility"
    /\ Len(patients) = 1
    /\ patients[1].created_for = last.args.session_id

\* C36 as stated: the answers a session has accepted for all 8 questions make
\* a patient record the record model accepts, so a finalization fails only
\* when create_patient itself fails.
C36_Original ==
    /\ \A r \in DOMAIN heap :
           DOMAIN heap[r].responses = QuestionIds
           => PatientCreateValid(PatientCreateOf(heap[r], _calculate_urgency(heap[r])))
    /\ AnsweredFinalizationFailed => last.result.error = "create_patient failed"

\* no emergency answer is urgent: the patient can walk, the other three are No
NoneUrgent == [ k \in EmergencyIds |-> k = "mobility" ]

\* C37 as stated: a completed interview reports a score in [0.3, 1.0] and a
\* level in 1..4; level 4 is reported only when no emergency answer is urgent
\* and the age, being neither above 65 nor below 5, earns no bump.
C37_Original ==
    AnsweredComplete =>
        /\ FloatGE(last.result.urgency_score, F_0_3)
        /\ FloatGE(F_1_0, last.result.urgency_score)
        /\ last.result.triage_level \in 1..4
        /\ patients[last.result.patient_id].triage_level \in 1..4
        /\ last.result.triage_level = 4 =>
               \A r \in DOMAIN heap :
                   heap[r].session_id = last.args.session_id
                   => /\ heap[r].emergency_responses = NoneUrgent
                      /\ heap[r].age[1] >= 5
                      /\ heap[r].age[1] <= 65

\* C38 as stated: the step reported by start_session, by process_voice_response
\* and by a status snapshot is within 1..total_steps, and total_steps is 8.
C38_Original ==
    last.status = "returned" =>
        /\ last.op \in { "start_session", "process_voice_response" }
               => /\ last.result.total_steps = 8
                  /\ last.result.step \in 1..last.result.total_steps
        /\ (last.op = "get_session_status" /\ last.result # None)
               => /\ last.result[1].total_steps = 8
                  /\ last.result[1].current_step \in 1..last.result[1].total_steps

\* the 'type' each generation method adds to its payload
KindOf(op) ==
    CASE op = "generate_symptoms_summary" -> "symptoms"
      [] op = "generate_treatment_summary" -> "treatment"
      [] op = "generate_queue_management_summary" -> "queue_management"

\* C40 as stated: with a client configured, a request without force_refresh
\* for a payload and type whose summary was generated less than
\* cache_duration ago returns the stored text and makes no provider call; a
\* call whose provider call fails stores nothing; and a call that makes no
\* provider call returns the text stored for its own payload and type.
C40_Original ==
    [][(client /\ last' # last /\ last'.op \in GenerateOps) =>
          LET key == KeyOf(WithType(last'.args.patient_data, KindOf(last'.op)))
          IN  /\ ( /\ ~last'.args.force_refresh
                   /\ key \in DOMAIN cache
                   /\ clock - cache[key].timestamp < 30 * 60 )
                 => /\ last'.result = cache[key].summary
                    /\ last'.tries = << >>
              /\ last'.tries = << "raised" >>
                 => \A k \in DOMAIN cache' : k \in DOMAIN cache /\ cache'[k] = cache[k]
              /\ last'.tries = << >>
                 => /\ key \in DOMAIN cache
                    /\ last'.result = cache[key].summary]_vars

====
